---- MODULE Spec2Model ----
(***************************************************************************)
(* A model of the event-stream engine of go-poe:                           *)
(*   - package sse: Writer.WriteEvent and Reader.ReadEvent (the codec);    *)
(*   - package client: performQueryRequest and streamRequestBase (the      *)
(*     orchestrator with its retry loop) behind StreamRequest.             *)
(* Strings of the codec are sequences of one-character strings, so that    *)
(* formatting and parsing are computed character by character.             *)
(***************************************************************************)
EXTENDS Integers, Sequences, FiniteSets, TLC

VARIABLES
    \* ---- package sse --------------------------------------------------
    phase,      \* "write" | "read" | "idle": which side of the codec is running
    written,    \* events handed to WriteEvent so far, in order
    lastWrites, \* the sink writes (one per Fprintf) of the last WriteEvent call
    wire,       \* the bytes in the sink / delivered by the io.Reader
    srcErr,     \* TRUE when the io.Reader ends with a non-EOF error after `wire`
    rlines,     \* the tokens bufio.Scanner yields for the reader's input
    rpos,       \* number of tokens already scanned
    out,        \* events returned by ReadEvent so far, in order
    rerr,       \* result of the last ReadEvent call: "nil" | "EOF" | "err"
    lastTrace,  \* per line scanned by the last ReadEvent call: line, record before, after
    run,        \* 1: reading the input; 2: reading the input with a blank line appended
    out1,       \* the events of run 1, kept when run 2 starts
    hasFlusher, \* Writer.flusher != nil: the sink is an http.Flusher
    werr,       \* result of the last WriteEvent call: "nil" | "err"
    lastOps     \* what the last WriteEvent call did to the sink: writes, flush

writerVars == <<hasFlusher, werr, lastOps>>

codecVars == <<phase, written, lastWrites, wire, srcErr, rlines, rpos, out, rerr,
               lastTrace, run, out1, writerVars>>

VARIABLES
    \* ---- package client ------------------------------------------------
    numTries,      \* opts.NumTries: as given, then after defaults()
    i,             \* the loop index of streamRequestBase: attempts already failed
    pc,            \* where the producer goroutine is:
                   \*   "idle" (no request), "start" (about to call performQueryRequest),
                   \*   "read" (about to call ReadEvent), "send" (in `ch <- msg`),
                   \*   "sleep" (in the select between attempts), "done" (returned)
    eventCount,    \* performQueryRequest: records read in this attempt
    chunks,        \* performQueryRequest: texts of this attempt
    errorReported, \* performQueryRequest: a soft failure was logged
    pending,       \* the message of the send the producer is in
    ch,            \* the messages buffered in the output channel
    closed,        \* the output channel is closed
    received,      \* the messages the consumer received, in order
    cancelled,     \* ctx is cancelled
    reads,         \* records the server delivered over the whole run
    processed,     \* history: the records dispatched in the current attempt
    produced,      \* history: the messages dispatch produced over the run
    attemptStart,  \* history: Len(produced) when the current attempt started
    attemptLog,    \* history: per ended attempt, its error and what caused it
    requests,      \* history: calls of httpClient.Do
    sleeps         \* history: times the loop went into the select between attempts

clientVars == <<numTries, i, pc, eventCount, chunks, errorReported, pending, ch, closed,
                received, cancelled, reads, processed, produced, attemptStart,
                attemptLog, requests, sleeps>>

VARIABLES
    \* ---- streamRequestWithTools ----------------------------------------
    hasTools,      \* len(opts.Tools) > 0
    executables,   \* the names of opts.ToolExecutables
    pass,          \* 0: no tools; 1, 2: the pass of the tool protocol that is running
    firstPassCh,   \* the messages buffered in the pass-1 channel
    firstClosed,   \* the pass-1 channel is closed
    fpc,           \* where streamRequestWithTools is:
                   \*   "idle" (not called), "range" (in `for msg := range firstPassCh`),
                   \*   "fsend" (in `ch <- msg`), "exec" (in executeTools, between
                   \*   callbacks), "callback" (in exec.Execute), "pass2", "done"
    fpending,      \* the message of the send streamRequestWithTools is in
    aggregated,    \* aggregatedToolCalls
    toolCalls,     \* toolCalls, in the order the map was ranged over
    toolResults,   \* the results executeTools has so far
    execPos,       \* executeTools: the tool call the loop is at
    payload,       \* the payload the requests of the running pass carry
    origin         \* history: per message written to ch, the pass that wrote it

sinkVars == <<firstPassCh, firstClosed, origin>>

fwdVars == <<hasTools, executables, pass, fpc, fpending, aggregated, toolCalls, toolResults,
             execPos, payload>>

toolVars == <<sinkVars, fwdVars>>

vars == <<codecVars, clientVars, toolVars>>

\* ------------------------------------------------------------------ bounds
MaxLines == 3     \* lines of an input stream given to the Reader
MaxEvents == 2    \* events written by the Writer in a round trip
MaxReads == 3     \* records the server delivers over one run, all attempts together
MaxBurst == 66    \* records of a burst that a slow consumer meets
MaxToolReads == 3 \* records the server delivers over a run with tools, both passes

\* ------------------------------------------------------------------ strings
LF == "\n"
CR == "\r"

RECURSIVE Flatten(_)
Flatten(ss) == IF ss = <<>> THEN <<>> ELSE Head(ss) \o Flatten(Tail(ss))

\* strings.Join(xs, "\n")
RECURSIVE JoinLF(_)
JoinLF(xs) ==
    IF xs = <<>> THEN <<>>
    ELSE IF Len(xs) = 1 THEN xs[1]
    ELSE xs[1] \o <<LF>> \o JoinLF(Tail(xs))

SeqsUpTo(S, n) == UNION {[1..k -> S] : k \in 0..n}

\* ------------------------------------------------------------------ sse.Event
Event(id, ev, data) == [ID |-> id, Event |-> ev, Data |-> data]
ZeroEvent == Event(<<>>, <<>>, <<>>)

\* ------------------------------------------------------------------ Writer
\* WriteEvent leaving out the data line of an event without Data.
WriteChunksSkipEmptyData(e) ==
    (IF e.ID # <<>> THEN << <<"i", "d", ":", " ">> \o e.ID \o <<LF>> >> ELSE <<>>)
    \o (IF e.Event # <<>>
        THEN << <<"e", "v", "e", "n", "t", ":", " ">> \o e.Event \o <<LF>> >>
        ELSE <<>>)
    \o (IF e.Data # <<>>
        THEN << <<"d", "a", "t", "a", ":", " ">> \o e.Data \o <<LF, LF>> >>
        ELSE << <<LF>> >>)

\* The Fprintf calls of WriteEvent, in order, each one write to the sink.
WriteChunks(e) ==
    (IF e.ID # <<>> THEN << <<"i", "d", ":", " ">> \o e.ID \o <<LF>> >> ELSE <<>>)
    \o (IF e.Event # <<>>
        THEN << <<"e", "v", "e", "n", "t", ":", " ">> \o e.Event \o <<LF>> >>
        ELSE <<>>)
    \o << <<"d", "a", "t", "a", ":", " ">> \o e.Data \o <<LF, LF>> >>

\* ------------------------------------------------------------------ Reader
DropCR(tok) ==
    IF Len(tok) > 0 /\ tok[Len(tok)] = CR THEN SubSeq(tok, 1, Len(tok) - 1) ELSE tok

\* bufio.ScanLines over the whole input: tokens end at "\n", a trailing "\r" is
\* dropped, a non-empty unterminated rest is the last token.
RECURSIVE ScanLines(_)
ScanLines(b) ==
    IF b = <<>> THEN <<>>
    ELSE IF \E k \in 1..Len(b) : b[k] = LF
    THEN LET k == CHOOSE k \in 1..Len(b) : b[k] = LF /\ \A j \in 1..(k - 1) : b[j] # LF
         IN  <<DropCR(SubSeq(b, 1, k - 1))>> \o ScanLines(SubSeq(b, k + 1, Len(b)))
    ELSE <<DropCR(b)>>

\* strings.Cut(line, ":")
Cut(line) ==
    IF \E k \in 1..Len(line) : line[k] = ":"
    THEN LET k == CHOOSE k \in 1..Len(line) :
                      line[k] = ":" /\ \A j \in 1..(k - 1) : line[j] # ":"
         IN  [field |-> SubSeq(line, 1, k - 1), value |-> SubSeq(line, k + 1, Len(line))]
    ELSE [field |-> line, value |-> <<>>]

\* strings.TrimLeft(value, " "): every leading space goes.
RECURSIVE TrimLeftSpaces(_)
TrimLeftSpaces(v) == IF Len(v) > 0 /\ v[1] = " " THEN TrimLeftSpaces(Tail(v)) ELSE v

\* strings.TrimPrefix(value, " ")
TrimPrefixSpace(v) == IF Len(v) > 0 /\ v[1] = " " THEN Tail(v) ELSE v

\* The locals of ReadEvent: event, dataLines, hasData.
ZeroAcc == [ID |-> <<>>, Event |-> <<>>, dataLines |-> <<>>, hasData |-> FALSE]

\* A blank line that ends the record whatever it holds.
HasContentAlways(acc) == TRUE

HasContent(acc) == acc.hasData \/ acc.Event # <<>> \/ acc.ID # <<>>

\* The field switch of ReadEvent on one non-blank, non-comment line.
ParseField(acc, line) ==
    LET c == Cut(line)
        value == TrimPrefixSpace(c.value)
    IN  IF c.field = <<"e", "v", "e", "n", "t">> THEN [acc EXCEPT !.Event = value]
        ELSE IF c.field = <<"d", "a", "t", "a">>
             THEN [acc EXCEPT !.dataLines = Append(@, value), !.hasData = TRUE]
        ELSE IF c.field = <<"i", "d">> THEN [acc EXCEPT !.ID = value]
        ELSE acc

\* The data lines joined without a separator.
AccEventNoSeparator(acc) == Event(acc.ID, acc.Event, Flatten(acc.dataLines))

AccEvent(acc) == Event(acc.ID, acc.Event, JoinLF(acc.dataLines))

\* The scan loop of ReadEvent from token p on: where it stopped, the locals, whether
\* it returned from inside the loop (at a blank line), and the lines it went through.
RECURSIVE ReadLoop(_, _, _, _)
ReadLoop(ls, p, acc, tr) ==
    IF p >= Len(ls) THEN [pos |-> p, acc |-> acc, returned |-> FALSE, trace |-> tr]
    ELSE LET line == ls[p + 1]
             step(a) == Append(tr, [line |-> line, before |-> acc, after |-> a])
         IN  IF line = <<>>
             THEN IF HasContent(acc)
                  THEN [pos |-> p + 1, acc |-> acc, returned |-> TRUE, trace |-> step(acc)]
                  ELSE ReadLoop(ls, p + 1, acc, step(acc))
             ELSE IF line[1] = ":" THEN ReadLoop(ls, p + 1, acc, step(acc))
             ELSE ReadLoop(ls, p + 1, ParseField(acc, line), step(ParseField(acc, line)))

\* ReadEvent that drops the pending record when the input ends.
ReadEventDropPending(ls, p, failed) ==
    LET r == ReadLoop(ls, p, ZeroAcc, <<>>)
    IN  IF r.returned
        THEN [event |-> AccEvent(r.acc), err |-> "nil", pos |-> r.pos, trace |-> r.trace]
        ELSE IF failed
        THEN [event |-> ZeroEvent, err |-> "err", pos |-> r.pos, trace |-> r.trace]
        ELSE [event |-> ZeroEvent, err |-> "EOF", pos |-> r.pos, trace |-> r.trace]

\* ReadEvent that does not look at scanner.Err().
ReadEventIgnoringErr(ls, p, failed) ==
    LET r == ReadLoop(ls, p, ZeroAcc, <<>>)
    IN  IF r.returned
        THEN [event |-> AccEvent(r.acc), err |-> "nil", pos |-> r.pos, trace |-> r.trace]
        ELSE IF HasContent(r.acc)
        THEN [event |-> AccEvent(r.acc), err |-> "nil", pos |-> r.pos, trace |-> r.trace]
        ELSE [event |-> ZeroEvent, err |-> "EOF", pos |-> r.pos, trace |-> r.trace]

\* One call of ReadEvent: the event and error it returns and the scanner's new position.
ReadEventResult(ls, p, failed) ==
    LET r == ReadLoop(ls, p, ZeroAcc, <<>>)
    IN  IF r.returned
        THEN [event |-> AccEvent(r.acc), err |-> "nil", pos |-> r.pos, trace |-> r.trace]
        ELSE IF failed
        THEN [event |-> ZeroEvent, err |-> "err", pos |-> r.pos, trace |-> r.trace]
        ELSE IF HasContent(r.acc)
        THEN [event |-> AccEvent(r.acc), err |-> "nil", pos |-> r.pos, trace |-> r.trace]
        ELSE [event |-> ZeroEvent, err |-> "EOF", pos |-> r.pos, trace |-> r.trace]

\* ------------------------------------------------------------------ inputs
\* Lines given to the Reader, each with the field and value it stands for.
Line(raw, kind, val) == [raw |-> raw, kind |-> kind, val |-> val]

Catalog == {
    Line(<<>>, "blank", <<>>),
    Line(<<":", "d", "a", "t", "a", ":", "a">>, "comment", <<>>),
    Line(<<"d", "a", "t", "a", ":", " ", "a">>, "data", <<"a">>),
    Line(<<"d", "a", "t", "a", ":", "b">>, "data", <<"b">>),
    Line(<<"d", "a", "t", "a", ":">>, "data", <<>>),
    Line(<<"d", "a", "t", "a", ":", " ", " ", "a">>, "data", <<" ", "a">>),
    Line(<<"d", "a", "t", "a", ":", " ", "a", ":", "b">>, "data", <<"a", ":", "b">>),
    Line(<<"i", "d", ":", " ", "1">>, "id", <<"1">>),
    Line(<<"i", "d", ":">>, "id", <<>>),
    Line(<<"e", "v", "e", "n", "t", ":", " ", "t">>, "event", <<"t">>),
    Line(<<"e", "v", "e", "n", "t", ":", "u", ":">>, "event", <<"u", ":">>),
    Line(<<"f", "o", "o", ":", " ", "x">>, "other", <<"x">>),
    Line(<<" ", "d", "a", "t", "a", ":", "a">>, "other", <<"a">>)
}

\* The bytes of a stream of lines; the last line ends with "\n" iff `terminated`.
RECURSIVE Render(_, _)
Render(raws, terminated) ==
    IF raws = <<>> THEN <<>>
    ELSE IF Len(raws) = 1 THEN raws[1] \o (IF terminated THEN <<LF>> ELSE <<>>)
    ELSE raws[1] \o <<LF>> \o Render(Tail(raws), terminated)

\* The Data values handed to the Writer.
DataSet == {<<>>, <<"a">>, <<" ", "a">>, <<"a", ":", "b">>, <<"a", LF, "b">>, <<"a", CR>>}

WriteSet ==
    {Event(id, ev, d) : id \in {<<>>, <<"1">>}, ev \in {<<>>, <<"t">>}, d \in DataSet}

\* ------------------------------------------------------------------ actions
\* What WriteEvent does to the sink.
SinkWrite(bytes, ok) == [op |-> "write", bytes |-> bytes, ok |-> ok]
SinkFlush == [op |-> "flush", bytes |-> <<>>, ok |-> TRUE]

\* The writes of cs up to the f-th, which fails; all of them when f = 0.
Writes(cs, f) ==
    [n \in 1..(IF f = 0 THEN Len(cs) ELSE f) |-> SinkWrite(cs[n], n # f)]

\* WriteEvent that goes on with the next lines after a failed write.
WriteEventOnIgnoringErr(e, f) ==
    /\ phase = "write"
    /\ Len(written) < MaxEvents
    /\ f <= Len(WriteChunks(e))
    /\ written' = Append(written, e)
    /\ LET cs == WriteChunks(e)
           ok == SelectSeq([n \in 1..Len(cs) |-> [c |-> cs[n], n |-> n]],
                           LAMBDA x : x.n # f)
           done == [n \in 1..Len(ok) |-> ok[n].c]
       IN  /\ lastWrites' = done
           /\ wire' = wire \o Flatten(done)
           /\ werr' = IF f = 0 THEN "nil" ELSE "err"
           /\ lastOps' = [n \in 1..Len(cs) |-> SinkWrite(cs[n], n # f)]
                              \o (IF hasFlusher THEN <<SinkFlush>> ELSE <<>>)
    /\ UNCHANGED hasFlusher
    /\ UNCHANGED <<phase, srcErr, rlines, rpos, out, rerr, lastTrace, run, out1>>
    /\ UNCHANGED clientVars
    /\ UNCHANGED toolVars

\* Writer.WriteEvent on a sink whose f-th write of this call fails, writing nothing
\* (f = 0: every write is accepted).
WriteEventOn(e, f) ==
    /\ phase = "write"
    /\ Len(written) < MaxEvents
    /\ f <= Len(WriteChunks(e))
    /\ written' = Append(written, e)
    /\ LET cs == WriteChunks(e)
           done == SubSeq(cs, 1, IF f = 0 THEN Len(cs) ELSE f - 1)
       IN  /\ lastWrites' = done
           /\ wire' = wire \o Flatten(done)
           /\ werr' = IF f = 0 THEN "nil" ELSE "err"
           /\ lastOps' = Writes(cs, f)
                              \o (IF f = 0 /\ hasFlusher THEN <<SinkFlush>> ELSE <<>>)
    /\ UNCHANGED hasFlusher
    /\ UNCHANGED <<phase, srcErr, rlines, rpos, out, rerr, lastTrace, run, out1>>
    /\ UNCHANGED clientVars
    /\ UNCHANGED toolVars

\* Writer.WriteEvent on a sink that accepts every write.
WriteEvent(e) == WriteEventOn(e, 0)

\* NewReader on the bytes written.
NewReader ==
    /\ phase = "write"
    /\ phase' = "read"
    /\ rlines' = ScanLines(wire)
    /\ rpos' = 0
    /\ UNCHANGED <<written, lastWrites, wire, srcErr, out, rerr, lastTrace, run, out1>>
    /\ UNCHANGED writerVars
    /\ UNCHANGED clientVars
    /\ UNCHANGED toolVars

\* Reader.ReadEvent, called again after it returned an error too.
ReadEvent ==
    /\ phase = "read"
    /\ LET r == ReadEventResult(rlines, rpos, srcErr)
       IN  /\ rpos' = r.pos
           /\ rerr' = r.err
           /\ out' = IF r.err = "nil" THEN Append(out, r.event) ELSE out
           /\ lastTrace' = r.trace
    /\ UNCHANGED <<phase, written, lastWrites, wire, srcErr, rlines, run, out1>>
    /\ UNCHANGED writerVars
    /\ UNCHANGED clientVars
    /\ UNCHANGED toolVars

\* The bytes that add one blank line to an input.
BlankLineSuffix(b) == IF b = <<>> \/ b[Len(b)] = LF THEN <<LF>> ELSE <<LF, LF>>

\* NewReader on the same input followed by a blank line, once the first reader
\* reached the end of the stream.
Reopen ==
    /\ phase = "read"
    /\ run = 1
    /\ rerr = "EOF"
    /\ run' = 2
    /\ out1' = out
    /\ wire' = wire \o BlankLineSuffix(wire)
    /\ rlines' = ScanLines(wire \o BlankLineSuffix(wire))
    /\ rpos' = 0
    /\ out' = <<>>
    /\ rerr' = "nil"
    /\ lastTrace' = <<>>
    /\ UNCHANGED <<phase, written, lastWrites, srcErr>>
    /\ UNCHANGED writerVars
    /\ UNCHANGED clientVars
    /\ UNCHANGED toolVars

\* ------------------------------------------------------------------ JSON payloads
\* A JSON value as encoding/json decodes it into `any`.
Str(x) == [t |-> "string", s |-> x, b |-> FALSE, n |-> 0]
Bool(x) == [t |-> "bool", s |-> "", b |-> x, n |-> 0]
Num(x) == [t |-> "number", s |-> "", b |-> FALSE, n |-> x]
Absent == [t |-> "absent", s |-> "", b |-> FALSE, n |-> 0]
Null == [t |-> "null", s |-> "", b |-> FALSE, n |-> 0]

\* A JSON array; n names its elements in ChoicesCatalog.
Choices(id) == [t |-> "array", s |-> "", b |-> FALSE, n |-> id]

Keys == {"text", "index", "allow_retry", "url", "content_type", "name", "inline_ref",
         "linkify", "suggested_replies", "choices", "k"}

EmptyMap == [k \in Keys |-> Absent]
Obj(f) == [k \in Keys |-> IF k \in DOMAIN f THEN f[k] ELSE Absent]

\* The data of a record: text that is no JSON ("invalid", the empty string included),
\* a JSON value that is no object ("array"), the JSON null, or a JSON object.
Doc(kind, fields) == [kind |-> kind, fields |-> fields]
InvalidDoc == Doc("invalid", EmptyMap)
ArrayDoc == Doc("array", EmptyMap)
NullDoc == Doc("null", EmptyMap)
ObjDoc(f) == Doc("object", Obj(f))

\* json.Unmarshal([]byte(data), &dataMap) with dataMap a map[string]any.
Unmarshal(doc) ==
    [ok |-> doc.kind \in {"object", "null"}, isNil |-> doc.kind # "object", m |-> doc.fields]

\* dataMap[key].(string), dataMap[key].(bool)
AsString(m, key) == [ok |-> m[key].t = "string", v |-> m[key].s]
AsBool(m, key) == [ok |-> m[key].t = "bool", v |-> m[key].b]

\* getJSONStringField that takes every JSON object as well formed.
GetJSONStringFieldLenient(doc, field) ==
    LET u == Unmarshal(doc)
    IN  IF ~u.ok THEN [err |-> "BotErrorNoRetry", v |-> ""]
        ELSE [err |-> "nil", v |-> AsString(u.m, field).v]

GetJSONStringField(doc, field) ==
    LET u == Unmarshal(doc)
    IN  IF ~u.ok THEN [err |-> "BotErrorNoRetry", v |-> ""]
        ELSE IF ~AsString(u.m, field).ok THEN [err |-> "BotErrorNoRetry", v |-> ""]
        ELSE [err |-> "nil", v |-> AsString(u.m, field).v]

\* ------------------------------------------------------------------ types.PartialResponse
NilIndex == [isNil |-> TRUE, v |-> 0]
NilAttachment ==
    [isNil |-> TRUE, URL |-> "", ContentType |-> "", Name |-> "",
     InlineRef |-> [isNil |-> TRUE, v |-> ""]]
NilData == [isNil |-> TRUE, m |-> EmptyMap]
NilRaw == [isNil |-> TRUE, Linkify |-> FALSE, SuggestedReplies |-> FALSE, ContentType |-> ""]

ZeroMsg ==
    [Text |-> "", IsReplaceResponse |-> FALSE, IsSuggestedReply |-> FALSE,
     Attachment |-> NilAttachment, Data |-> NilData, RawResponse |-> NilRaw,
     ToolCalls |-> <<>>, Index |-> NilIndex]

\* The index parsed from the data of a record, when it has one.
ParseIndex(doc) ==
    LET u == Unmarshal(doc)
    IN  IF doc.kind # "invalid" /\ u.ok /\ u.m["index"].t = "number"
        THEN [isNil |-> FALSE, v |-> u.m["index"].n]
        ELSE NilIndex

\* ------------------------------------------------------------------ performQueryRequest
Rec(type, data) == [type |-> type, data |-> data]

Send(msg, cs, er) ==
    [do |-> "send", err |-> "nil", msg |-> msg, chunks |-> cs, errorReported |-> er]
Continue(cs, er) ==
    [do |-> "continue", err |-> "nil", msg |-> ZeroMsg, chunks |-> cs, errorReported |-> er]
Return(err, cs, er) ==
    [do |-> "return", err |-> err, msg |-> ZeroMsg, chunks |-> cs, errorReported |-> er]

\* The case "meta" that honours a meta record at any position.
DispatchMetaAnywhere(rec, count, cs, er) ==
    LET u == Unmarshal(rec.data)
    IN  IF ~u.ok THEN Continue(cs, TRUE)
        ELSE Send([ZeroMsg EXCEPT
                      !.RawResponse =
                          [isNil |-> FALSE,
                           Linkify |-> AsBool(u.m, "linkify").v,
                           SuggestedReplies |-> AsBool(u.m, "suggested_replies").v,
                           ContentType |-> IF AsString(u.m, "content_type").ok
                                           THEN AsString(u.m, "content_type").v
                                           ELSE "text/markdown"],
                      !.Index = ParseIndex(rec.data)], cs, er)

\* The case "meta" of the switch.
DispatchMeta(rec, count, cs, er) ==
    IF count # 1 THEN Continue(cs, er)
    ELSE LET u == Unmarshal(rec.data)
         IN  IF ~u.ok THEN Continue(cs, TRUE)
             ELSE Send([ZeroMsg EXCEPT
                           !.RawResponse =
                               [isNil |-> FALSE,
                                Linkify |-> AsBool(u.m, "linkify").v,
                                SuggestedReplies |-> AsBool(u.m, "suggested_replies").v,
                                ContentType |-> IF AsString(u.m, "content_type").ok
                                                THEN AsString(u.m, "content_type").v
                                                ELSE "text/markdown"],
                           !.Index = ParseIndex(rec.data)], cs, er)

\* The case "error" that hands the error to the consumer as a message.
DispatchErrorAsMessage(rec, cs, er) ==
    Send([ZeroMsg EXCEPT !.Text = AsString(Unmarshal(rec.data).m, "text").v], cs, er)

\* The case "error" with the allow_retry test the wrong way round.
DispatchErrorInverted(rec, cs, er) ==
    LET u == Unmarshal(rec.data)
        allowRetry == IF AsBool(u.m, "allow_retry").ok THEN AsBool(u.m, "allow_retry").v
                      ELSE TRUE
    IN  IF ~u.ok THEN Return("BotError", cs, er)
        ELSE IF allowRetry THEN Return("BotErrorNoRetry", cs, er)
        ELSE Return("BotError", cs, er)

\* The case "error" of the switch.
DispatchError(rec, cs, er) ==
    LET u == Unmarshal(rec.data)
        allowRetry == IF AsBool(u.m, "allow_retry").ok THEN AsBool(u.m, "allow_retry").v
                      ELSE TRUE
    IN  IF ~u.ok THEN Return("BotError", cs, er)
        ELSE IF allowRetry THEN Return("BotError", cs, er)
        ELSE Return("BotErrorNoRetry", cs, er)

\* The case "file" of the switch.
DispatchFile(rec, cs, er) ==
    LET u == Unmarshal(rec.data)
    IN  IF ~u.ok THEN Return("BotErrorNoRetry", cs, er)
        ELSE Send([ZeroMsg EXCEPT
                      !.Attachment =
                          [isNil |-> FALSE,
                           URL |-> AsString(u.m, "url").v,
                           ContentType |-> AsString(u.m, "content_type").v,
                           Name |-> AsString(u.m, "name").v,
                           InlineRef |-> [isNil |-> ~AsString(u.m, "inline_ref").ok,
                                          v |-> AsString(u.m, "inline_ref").v]],
                      !.Index = ParseIndex(rec.data)], cs, er)

\* The switch that sends a suggested reply as plain text.
DispatchSuggestedAsText(rec, cs, er) ==
    LET text == GetJSONStringField(rec.data, "text")
    IN  IF text.err # "nil" THEN Return(text.err, cs, er)
        ELSE Send([ZeroMsg EXCEPT !.Text = text.v, !.Index = ParseIndex(rec.data)], cs, er)

\* The case "suggested_reply" of the switch.
DispatchSuggested(rec, cs, er) ==
    LET text == GetJSONStringField(rec.data, "text")
    IN  IF text.err # "nil" THEN Return(text.err, cs, er)
        ELSE Send([ZeroMsg EXCEPT !.Text = text.v, !.IsSuggestedReply = TRUE,
                                  !.Index = ParseIndex(rec.data)], cs, er)

\* One iteration of the loop of performQueryRequest after ReadEvent returned the
\* The switch with a default case that fails the attempt.
DispatchAbortingOnSoft(rec, count, cs, er) ==
    CASE rec.type = "done" -> Return("nil", cs, er)
      [] rec.type = "text" ->
            LET text == GetJSONStringField(rec.data, "text")
            IN  IF text.err # "nil" THEN Return(text.err, cs, er)
                ELSE Send([ZeroMsg EXCEPT !.Text = text.v, !.Index = ParseIndex(rec.data)],
                          Append(cs, text.v), er)
      [] rec.type = "replace_response" ->
            LET text == GetJSONStringField(rec.data, "text")
            IN  IF text.err # "nil" THEN Return(text.err, cs, er)
                ELSE Send([ZeroMsg EXCEPT !.Text = text.v, !.IsReplaceResponse = TRUE,
                                          !.Index = ParseIndex(rec.data)], <<>>, er)
      [] rec.type = "file" -> DispatchFile(rec, cs, er)
      [] rec.type = "suggested_reply" -> DispatchSuggested(rec, cs, er)
      [] rec.type = "json" ->
            LET u == Unmarshal(rec.data)
            IN  IF ~u.ok THEN Return("BotErrorNoRetry", cs, er)
                ELSE Send([ZeroMsg EXCEPT !.Data = [isNil |-> u.isNil, m |-> u.m],
                                          !.Index = ParseIndex(rec.data)], cs, er)
      [] rec.type = "meta" -> DispatchMeta(rec, count, cs, er)
      [] rec.type = "error" -> DispatchError(rec, cs, er)
      [] rec.type = "ping" -> Continue(cs, er)
      [] OTHER -> Return("BotError", cs, er)

\* record `rec`, the count-th of the attempt: what the switch does with it.
Dispatch(rec, count, cs, er) ==
    CASE rec.type = "done" -> Return("nil", cs, er)
      [] rec.type = "text" ->
            LET text == GetJSONStringField(rec.data, "text")
            IN  IF text.err # "nil" THEN Return(text.err, cs, er)
                ELSE Send([ZeroMsg EXCEPT !.Text = text.v, !.Index = ParseIndex(rec.data)],
                          Append(cs, text.v), er)
      [] rec.type = "replace_response" ->
            LET text == GetJSONStringField(rec.data, "text")
            IN  IF text.err # "nil" THEN Return(text.err, cs, er)
                ELSE Send([ZeroMsg EXCEPT !.Text = text.v, !.IsReplaceResponse = TRUE,
                                          !.Index = ParseIndex(rec.data)], <<>>, er)
      [] rec.type = "file" -> DispatchFile(rec, cs, er)
      [] rec.type = "suggested_reply" -> DispatchSuggested(rec, cs, er)
      [] rec.type = "json" ->
            LET u == Unmarshal(rec.data)
            IN  IF ~u.ok THEN Return("BotErrorNoRetry", cs, er)
                ELSE Send([ZeroMsg EXCEPT !.Data = [isNil |-> u.isNil, m |-> u.m],
                                          !.Index = ParseIndex(rec.data)], cs, er)
      [] rec.type = "meta" -> DispatchMeta(rec, count, cs, er)
      [] rec.type = "error" -> DispatchError(rec, cs, er)
      [] rec.type = "ping" -> Continue(cs, er)
      [] OTHER -> Continue(cs, TRUE)

\* The records a server sends.
ServerRecords == {
    Rec("text", ObjDoc([text |-> Str("a")])),
    Rec("text", ObjDoc([text |-> Str("b"), index |-> Num(1)])),
    Rec("text", InvalidDoc),
    Rec("text", ObjDoc([text |-> Num(5)])),
    Rec("replace_response", ObjDoc([text |-> Str("a")])),
    Rec("replace_response", ObjDoc([k |-> Num(1)])),
    Rec("suggested_reply", ObjDoc([text |-> Str("a")])),
    Rec("suggested_reply", InvalidDoc),
    Rec("file", ObjDoc([url |-> Str("u"), content_type |-> Str("c"), name |-> Str("n")])),
    Rec("file", InvalidDoc),
    Rec("file", ObjDoc([url |-> Num(5)])),
    Rec("json", ObjDoc([k |-> Num(1)])),
    Rec("json", ArrayDoc),
    Rec("meta", ObjDoc([linkify |-> Bool(TRUE), content_type |-> Str("text/plain")])),
    Rec("meta", InvalidDoc),
    Rec("error", ObjDoc([text |-> Str("e")])),
    Rec("error", ObjDoc([allow_retry |-> Bool(TRUE), text |-> Str("e")])),
    Rec("error", ObjDoc([allow_retry |-> Bool(FALSE), text |-> Str("e")])),
    Rec("error", InvalidDoc),
    Rec("ping", ObjDoc([k |-> Num(1)])),
    Rec("done", ObjDoc([k |-> Num(1)])),
    Rec("other", ObjDoc([text |-> Str("a")]))
}

\* What ends an attempt without a record: the transport, or the end of the input.
TransportFailure == Rec("(transport)", InvalidDoc)
EndOfInput == Rec("(eof)", InvalidDoc)

\* ------------------------------------------------------------------ tool calls
\* A *string that is nil or points to v.
NilString == [isNil |-> TRUE, v |-> ""]
StringPtr(x) == [isNil |-> FALSE, v |-> x]

\* types.ToolCallDefinition, and the entry of an index aggregatedToolCalls has no key
\* for. Arguments is a sequence of characters.
ToolCall(id, type, name, args) ==
    [exists |-> TRUE, ID |-> id, Type |-> type, Name |-> name, Arguments |-> args]
NoCall == [exists |-> FALSE, ID |-> "", Type |-> "", Name |-> "", Arguments |-> <<>>]

\* types.ToolCallDefinitionDelta; Arguments is a sequence of characters.
Delta(index, id, type, name, args) ==
    [Index |-> index, ID |-> id, Type |-> type, Name |-> name, Arguments |-> args]

\* An element of a tool_calls list: `ok` says whether it unmarshals into a delta.
RawDelta(d) == [ok |-> TRUE, d |-> d]
BadDelta == [ok |-> FALSE, d |-> Delta(0, NilString, NilString, NilString, <<>>)]

\* choices[0] as the loop of streamRequestWithTools looks at it.
Choice(finish, raws, content) ==
    [isMap |-> TRUE, finish |-> finish, deltaIsMap |-> TRUE,
     hasToolCalls |-> raws # <<>>, toolCallsIsList |-> TRUE, raws |-> raws,
     hasContent |-> content # "", contentIsString |-> TRUE, content |-> content]
NoChoice == [Choice(FALSE, <<>>, "") EXCEPT !.isMap = FALSE, !.deltaIsMap = FALSE]
FinishChoice == [Choice(TRUE, <<>>, "") EXCEPT !.deltaIsMap = FALSE]

\* The arrays a `choices` field holds: their length and first element.
ChoicesCatalog == <<
    \* 1: the first deltas of call 0 and call 1, with id, type and name
    [len |-> 1, first |-> Choice(FALSE, <<RawDelta(Delta(0, StringPtr("c0"),
                              StringPtr("function"), StringPtr("f"), <<>>)),
                                          RawDelta(Delta(1, StringPtr("c1"),
                              StringPtr("function"), StringPtr("g"), <<>>))>>, "")],
    \* 2: a fragment of the arguments of call 0 and one of call 1
    [len |-> 1, first |-> Choice(FALSE, <<RawDelta(Delta(0, NilString, NilString,
                              NilString, <<"x">>)),
                                          RawDelta(Delta(1, NilString, NilString,
                              NilString, <<"y">>))>>, "")],
    \* 3: the finish signal
    [len |-> 1, first |-> FinishChoice],
    \* 4: content
    [len |-> 1, first |-> Choice(FALSE, <<>>, "hi")],
    \* 5: a bundle of two: a fragment of the arguments of call 1, and one that is no
    \* delta
    [len |-> 1, first |-> Choice(FALSE, <<RawDelta(Delta(1, NilString, NilString,
                              NilString, <<"z">>)), BadDelta>>, "")],
    \* 6: no choice at all
    [len |-> 0, first |-> NoChoice],
    \* 7: the finish signal on a record that carries a delta
    [len |-> 1, first |-> Choice(TRUE, <<RawDelta(Delta(0, NilString, NilString,
                              NilString, <<"z">>))>>, "")],
    \* 8: tool_calls that is no list
    [len |-> 1, first |-> [Choice(FALSE, <<>>, "") EXCEPT !.hasToolCalls = TRUE,
                                                        !.toolCallsIsList = FALSE]]
>>

\* The values of the index of a tool-call delta.
ToolIndexes == {0, 1}

\* A slice: nil, or the elements it holds.
NilSlice == [isNil |-> TRUE, v |-> <<>>]
Slice(s) == [isNil |-> FALSE, v |-> s]

\* `var results []types.ToolResultDefinition` after the appends of executeTools: nil
\* when nothing was appended.
ResultSlice(s) == IF s = <<>> THEN NilSlice ELSE Slice(s)

\* A key of the payload: absent, or with its value.
NoKey == [present |-> FALSE, v |-> <<>>]
Key(v) == [present |-> TRUE, v |-> v]

\* The caller's QueryRequest and tool definitions.
Request == "req"
Tools == <<"f", "g">>

\* buildPayload: the request as a map, with the keys whose slice is not nil.
BuildPayload(req, tools, calls, results) ==
    [request |-> req,
     tools |-> IF tools.isNil THEN NoKey ELSE Key(tools.v),
     tool_calls |-> IF calls.isNil THEN NoKey ELSE Key(calls.v),
     tool_results |-> IF results.isNil THEN NoKey ELSE Key(results.v)]

\* `var payload map[string]any` before buildPayload.
NoPayload == [request |-> "", tools |-> NoKey, tool_calls |-> NoKey, tool_results |-> NoKey]

\* make(map[int]*types.ToolCallDefinition)
EmptyAggregated == [x \in ToolIndexes |-> NoCall]

\* streamRequestWithTools is not running.
ToolsIdle ==
    /\ payload = NoPayload
    /\ hasTools = FALSE
    /\ executables = {}
    /\ pass = 0
    /\ firstPassCh = <<>>
    /\ firstClosed = FALSE
    /\ fpc = "idle"
    /\ fpending = ZeroMsg
    /\ aggregated = EmptyAggregated
    /\ toolCalls = <<>>
    /\ toolResults = <<>>
    /\ execPos = 0
    /\ origin = <<>>

\* ------------------------------------------------------------------ StreamRequest
DefaultNumTries == 2
ChanCap == 64

\* StreamRequestOptions.defaults, the NumTries part.
Defaults(n) == IF n <= 0 THEN DefaultNumTries ELSE n

\* The values callers give StreamRequestOptions.NumTries: negative, unset, one
\* attempt, two.
NumTriesOptions == {-1, 0, 1, 2}

\* The channel the producer writes to: the pass-1 channel in pass 1, else the output.
Sink == IF pass = 1 THEN firstPassCh ELSE ch

\* `ch <- msg` of the producer going through.
Put(msg) ==
    IF pass = 1
    THEN firstPassCh' = Append(firstPassCh, msg) /\ UNCHANGED <<ch, origin>>
    ELSE ch' = Append(ch, msg) /\ origin' = Append(origin, pass) /\ UNCHANGED firstPassCh

\* The producer of pass 1 closing the output channel, not its own.
CloseSinkOutput == closed' = TRUE /\ firstClosed' = firstClosed

\* The function the producer runs returns and the deferred close of its channel runs.
CloseSink ==
    IF pass = 1
    THEN firstClosed' = TRUE /\ closed' = closed
    ELSE closed' = TRUE /\ firstClosed' = firstClosed

KeepSink == closed' = closed /\ firstClosed' = firstClosed

\* streamRequestBase that goes on to the next attempt whatever the error.
EndAttemptAlwaysRetry(err, cause) ==
    /\ attemptLog' = Append(attemptLog, [err |-> err, cause |-> cause])
    /\ IF err = "nil" \/ i = numTries - 1
       THEN pc' = "done" /\ CloseSink /\ sleeps' = sleeps
       ELSE pc' = "sleep" /\ KeepSink /\ sleeps' = sleeps + 1
    /\ UNCHANGED i

\* streamRequestBase that goes on to the next attempt after a success.
EndAttemptRetryAfterSuccess(err, cause) ==
    /\ attemptLog' = Append(attemptLog, [err |-> err, cause |-> cause])
    /\ IF err = "BotErrorNoRetry" \/ i = numTries - 1
       THEN pc' = "done" /\ CloseSink /\ sleeps' = sleeps
       ELSE pc' = "sleep" /\ KeepSink /\ sleeps' = sleeps + 1
    /\ UNCHANGED i

\* streamRequestBase that returns without the channel being closed.
EndAttemptNoClose(err, cause) ==
    /\ attemptLog' = Append(attemptLog, [err |-> err, cause |-> cause])
    /\ IF err = "nil" \/ err = "BotErrorNoRetry" \/ i = numTries - 1
       THEN pc' = "done" /\ KeepSink /\ sleeps' = sleeps
       ELSE pc' = "sleep" /\ KeepSink /\ sleeps' = sleeps + 1
    /\ UNCHANGED i

\* streamRequestBase after performQueryRequest returned `err`: return (the deferred
\* close of the channel runs) or go to the select between attempts.
EndAttempt(err, cause) ==
    /\ attemptLog' = Append(attemptLog, [err |-> err, cause |-> cause])
    /\ IF err = "nil" \/ err = "BotErrorNoRetry" \/ i = numTries - 1
       THEN pc' = "done" /\ CloseSink /\ sleeps' = sleeps
       ELSE pc' = "sleep" /\ KeepSink /\ sleeps' = sleeps + 1
    /\ UNCHANGED i

\* StreamRequest: the channel is made, the options get their defaults and the
\* goroutine running streamRequestBase is started.
StreamRequest ==
    /\ pc = "new"
    /\ numTries' = Defaults(numTries)
    /\ pc' = "start"
    /\ pass' = IF hasTools THEN 1 ELSE 0
    /\ fpc' = IF hasTools THEN "range" ELSE "idle"
    /\ payload' = BuildPayload(Request, IF hasTools THEN Slice(Tools) ELSE NilSlice,
                            NilSlice, NilSlice)
    /\ UNCHANGED <<i, eventCount, chunks, errorReported, pending, ch, closed, received,
                   cancelled, reads, processed, produced, attemptStart, attemptLog,
                   requests, sleeps>>
    /\ UNCHANGED <<hasTools, executables,
                   fpending, aggregated, toolCalls, toolResults,
                   execPos>>
    /\ UNCHANGED sinkVars
    /\ UNCHANGED codecVars

\* A new attempt that throws away what the consumer has not received yet.
ConnectDroppingOutput ==
    /\ pc = "start"
    /\ ~cancelled
    /\ pc' = "read"
    /\ eventCount' = 0
    /\ chunks' = <<>>
    /\ errorReported' = FALSE
    /\ processed' = <<>>
    /\ attemptStart' = Len(produced)
    /\ ch' = <<>>
    /\ UNCHANGED <<numTries, i, pending, closed, received, cancelled, reads,
                   produced, attemptLog>>
    /\ requests' = requests + 1
    /\ UNCHANGED sleeps
    /\ UNCHANGED toolVars
    /\ UNCHANGED codecVars

\* performQueryRequest up to the loop: the request is sent and answered.
Connect ==
    /\ pc = "start"
    /\ ~cancelled
    /\ pc' = "read"
    /\ eventCount' = 0
    /\ chunks' = <<>>
    /\ errorReported' = FALSE
    /\ processed' = <<>>
    /\ attemptStart' = Len(produced)
    /\ UNCHANGED <<numTries, i, pending, ch, closed, received, cancelled, reads,
                   produced, attemptLog>>
    /\ requests' = requests + 1
    /\ UNCHANGED sleeps
    /\ UNCHANGED toolVars
    /\ UNCHANGED codecVars

\* httpClient.Do fails: no connection, a timeout, or a cancelled context.
ConnectFail ==
    /\ pc = "start"
    /\ processed' = <<>>
    /\ attemptStart' = Len(produced)
    /\ EndAttempt("BotError", TransportFailure)
    /\ UNCHANGED <<numTries, eventCount, chunks, errorReported, pending, ch, received,
                   cancelled, reads, produced>>
    /\ requests' = requests + 1
    /\ UNCHANGED <<firstPassCh, origin>>
    /\ UNCHANGED fwdVars
    /\ UNCHANGED codecVars

\* The loop iteration that drops the message when the channel is full.
ReadStepDropWhenFull(rec) ==
    /\ pc = "read"
    /\ reads' = reads + 1
    /\ eventCount' = eventCount + 1
    /\ processed' = Append(processed, rec)
    /\ LET d == Dispatch(rec, eventCount + 1, chunks, errorReported)
       IN  /\ chunks' = d.chunks
           /\ errorReported' = d.errorReported
           /\ CASE d.do = "send" ->
                     /\ produced' = Append(produced, d.msg)
                     /\ IF Len(Sink) < ChanCap
                        THEN Put(d.msg) /\ pc' = "read" /\ pending' = pending
                        ELSE /\ pc' = "read" /\ pending' = pending
                             /\ UNCHANGED <<ch, firstPassCh, origin>>
                     /\ UNCHANGED <<i, closed, firstClosed, attemptLog, sleeps>>
                [] d.do = "continue" ->
                     /\ pc' = "read"
                     /\ UNCHANGED <<i, closed, firstClosed, attemptLog, sleeps, pending,
                                    produced, ch, firstPassCh, origin>>
                [] d.do = "return" ->
                     /\ EndAttempt(d.err, rec)
                     /\ UNCHANGED <<pending, produced, ch, firstPassCh, origin>>
    /\ UNCHANGED <<numTries, received, cancelled, attemptStart>>
    /\ UNCHANGED requests
    /\ UNCHANGED fwdVars
    /\ UNCHANGED codecVars

\* One iteration of the loop: ReadEvent returns the record `rec` and the switch
\* dispatches it; a message goes into the channel at once when the channel has room,
\* else the send blocks.
ReadStep(rec) ==
    /\ pc = "read"
    /\ reads' = reads + 1
    /\ eventCount' = eventCount + 1
    /\ processed' = Append(processed, rec)
    /\ LET d == Dispatch(rec, eventCount + 1, chunks, errorReported)
       IN  /\ chunks' = d.chunks
           /\ errorReported' = d.errorReported
           /\ CASE d.do = "send" ->
                     /\ produced' = Append(produced, d.msg)
                     /\ IF Len(Sink) < ChanCap
                        THEN Put(d.msg) /\ pc' = "read" /\ pending' = pending
                        ELSE /\ pc' = "send" /\ pending' = d.msg
                             /\ UNCHANGED <<ch, firstPassCh, origin>>
                     /\ UNCHANGED <<i, closed, firstClosed, attemptLog, sleeps>>
                [] d.do = "continue" ->
                     /\ pc' = "read"
                     /\ UNCHANGED <<i, closed, firstClosed, attemptLog, sleeps, pending,
                                    produced, ch, firstPassCh, origin>>
                [] d.do = "return" ->
                     /\ EndAttempt(d.err, rec)
                     /\ UNCHANGED <<pending, produced, ch, firstPassCh, origin>>
    /\ UNCHANGED <<numTries, received, cancelled, attemptStart>>
    /\ UNCHANGED requests
    /\ UNCHANGED fwdVars
    /\ UNCHANGED codecVars

\* The server delivers the record `rec`, one of the MaxReads records of a run.
ReadRecord(rec) ==
    /\ reads < MaxReads
    /\ ReadStep(rec)

\* The end of the input taken for a read error.
ReadEOFAsError ==
    /\ pc = "read"
    /\ EndAttempt("BotError", EndOfInput)
    /\ UNCHANGED <<numTries, eventCount, chunks, errorReported, pending, ch, received,
                   cancelled, reads, processed, produced, attemptStart>>
    /\ UNCHANGED requests
    /\ UNCHANGED <<firstPassCh, origin>>
    /\ UNCHANGED fwdVars
    /\ UNCHANGED codecVars

\* ReadEvent returns io.EOF: the stream ended without a done record.
ReadEOF ==
    /\ pc = "read"
    /\ EndAttempt("nil", EndOfInput)
    /\ UNCHANGED <<numTries, eventCount, chunks, errorReported, pending, ch, received,
                   cancelled, reads, processed, produced, attemptStart>>
    /\ UNCHANGED requests
    /\ UNCHANGED <<firstPassCh, origin>>
    /\ UNCHANGED fwdVars
    /\ UNCHANGED codecVars

\* ReadEvent returns another error: the body fails, or the context was cancelled.
ReadError ==
    /\ pc = "read"
    /\ EndAttempt("BotError", TransportFailure)
    /\ UNCHANGED <<numTries, eventCount, chunks, errorReported, pending, ch, received,
                   cancelled, reads, processed, produced, attemptStart>>
    /\ UNCHANGED requests
    /\ UNCHANGED <<firstPassCh, origin>>
    /\ UNCHANGED fwdVars
    /\ UNCHANGED codecVars

\* A blocked `ch <- msg` goes through once the channel has room.
SendMsg ==
    /\ pc = "send"
    /\ Len(Sink) < ChanCap
    /\ Put(pending)
    /\ pending' = ZeroMsg
    /\ pc' = "read"
    /\ UNCHANGED <<numTries, i, eventCount, chunks, errorReported, closed, received,
                   cancelled, reads, processed, produced, attemptStart, attemptLog>>
    /\ UNCHANGED <<requests, sleeps>>
    /\ UNCHANGED firstClosed
    /\ UNCHANGED fwdVars
    /\ UNCHANGED codecVars

\* The select between attempts: the timer fires.
SleepWake ==
    /\ pc = "sleep"
    /\ i' = i + 1
    /\ pc' = "start"
    /\ UNCHANGED <<numTries, eventCount, chunks, errorReported, pending, ch, closed,
                   received, cancelled, reads, processed, produced, attemptStart,
                   attemptLog>>
    /\ UNCHANGED <<requests, sleeps>>
    /\ UNCHANGED toolVars
    /\ UNCHANGED codecVars

\* The select between attempts: ctx.Done() is ready.
SleepCancelled ==
    /\ pc = "sleep"
    /\ cancelled
    /\ pc' = "done"
    /\ closed' = TRUE
    /\ UNCHANGED <<numTries, i, eventCount, chunks, errorReported, pending, ch, received,
                   cancelled, reads, processed, produced, attemptStart, attemptLog>>
    /\ UNCHANGED <<requests, sleeps>>
    /\ UNCHANGED toolVars
    /\ UNCHANGED codecVars

\* The caller cancels the context while the request runs.
Cancel ==
    /\ pc \in {"start", "read", "send", "sleep"}
    /\ ~cancelled
    /\ cancelled' = TRUE
    /\ UNCHANGED <<numTries, i, pc, eventCount, chunks, errorReported, pending, ch, closed,
                   received, reads, processed, produced, attemptStart, attemptLog>>
    /\ UNCHANGED <<requests, sleeps>>
    /\ UNCHANGED toolVars
    /\ UNCHANGED codecVars

\* The consumer receives from the channel.
Recv ==
    /\ ch # <<>>
    /\ received' = Append(received, Head(ch))
    /\ ch' = Tail(ch)
    /\ UNCHANGED <<numTries, i, pc, eventCount, chunks, errorReported, pending, closed,
                   cancelled, reads, processed, produced, attemptStart, attemptLog>>
    /\ UNCHANGED <<requests, sleeps>>
    /\ UNCHANGED toolVars
    /\ UNCHANGED codecVars

\* ------------------------------------------------------------------ GetFinalResponse
\* The loop body that keeps what came before a replace_response.
FinalStepKeepingOld(cs, msg) ==
    IF ~msg.RawResponse.isNil THEN cs
    ELSE IF msg.IsSuggestedReply THEN cs
    ELSE Append(cs, msg.Text)

\* One iteration of `for msg := range ch` in GetFinalResponse.
FinalStep(cs, msg) ==
    IF ~msg.RawResponse.isNil THEN cs
    ELSE IF msg.IsSuggestedReply THEN cs
    ELSE Append(IF msg.IsReplaceResponse THEN <<>> ELSE cs, msg.Text)

\* The loop of GetFinalResponse over the messages msgs, from `chunks`.
RECURSIVE Collect(_, _)
Collect(msgs, cs) ==
    IF msgs = <<>> THEN cs
    ELSE Collect(Tail(msgs), FinalStep(cs, Head(msgs)))

\* strings.Join(chunks, ""): a string is kept as the sequence of its non-empty pieces.
JoinChunks(cs) == SelectSeq(cs, LAMBDA x : x # "")

\* What GetFinalResponse returns once the channel it ranges over gave msgs and closed.
GetFinalResponse(msgs) ==
    LET cs == Collect(msgs, <<>>)
    IN  IF Len(cs) = 0
        THEN [text |-> <<>>, err |-> "BotError"]
        ELSE [text |-> JoinChunks(cs), err |-> "nil"]

\* ------------------------------------------------------------------ streamRequestWithTools
\* The deltas of a tool_calls list: the elements that unmarshal, in order.
RECURSIVE ParseDeltas(_)
ParseDeltas(raws) ==
    IF raws = <<>> THEN <<>>
    ELSE IF Head(raws).ok THEN <<Head(raws).d>> \o ParseDeltas(Tail(raws))
    ELSE ParseDeltas(Tail(raws))

\* The loop that puts a later fragment in front of the arguments it has.
RECURSIVE AggregatePrepending(_, _)
AggregatePrepending(deltas, agg) ==
    IF deltas = <<>> THEN agg
    ELSE LET d == Head(deltas)
             next ==
                 IF ~agg[d.Index].exists
                 THEN IF d.ID.isNil \/ d.Type.isNil \/ d.Name.isNil THEN agg
                      ELSE [agg EXCEPT ![d.Index] =
                                ToolCall(d.ID.v, d.Type.v, d.Name.v, d.Arguments)]
                 ELSE [agg EXCEPT ![d.Index].Arguments = d.Arguments \o @]
         IN  AggregatePrepending(Tail(deltas), next)

\* The loop that begins a call with whatever the first delta of an index has.
RECURSIVE AggregateKeepingEarly(_, _)
AggregateKeepingEarly(deltas, agg) ==
    IF deltas = <<>> THEN agg
    ELSE LET d == Head(deltas)
             next ==
                 IF ~agg[d.Index].exists
                 THEN [agg EXCEPT ![d.Index] =
                           ToolCall(d.ID.v, d.Type.v, d.Name.v, d.Arguments)]
                 ELSE [agg EXCEPT ![d.Index].Arguments = @ \o d.Arguments]
         IN  AggregateKeepingEarly(Tail(deltas), next)

\* The loop that starts the entry anew at every delta with id, type and name.
RECURSIVE AggregateRestarting(_, _)
AggregateRestarting(deltas, agg) ==
    IF deltas = <<>> THEN agg
    ELSE LET d == Head(deltas)
             next ==
                 IF ~(d.ID.isNil \/ d.Type.isNil \/ d.Name.isNil)
                 THEN [agg EXCEPT ![d.Index] =
                           ToolCall(d.ID.v, d.Type.v, d.Name.v, d.Arguments)]
                 ELSE IF ~agg[d.Index].exists THEN agg
                 ELSE [agg EXCEPT ![d.Index].Arguments = @ \o d.Arguments]
         IN  AggregateRestarting(Tail(deltas), next)

\* The loop "Aggregate tool calls" over the deltas of one message.
RECURSIVE Aggregate(_, _)
Aggregate(deltas, agg) ==
    IF deltas = <<>> THEN agg
    ELSE LET d == Head(deltas)
             next ==
                 IF ~agg[d.Index].exists
                 THEN IF d.ID.isNil \/ d.Type.isNil \/ d.Name.isNil THEN agg
                      ELSE [agg EXCEPT ![d.Index] =
                                ToolCall(d.ID.v, d.Type.v, d.Name.v, d.Arguments)]
                 ELSE [agg EXCEPT ![d.Index].Arguments = @ \o d.Arguments]
         IN  Aggregate(Tail(deltas), next)

Forwarded(msg, agg) == [do |-> "send", msg |-> msg, agg |-> agg]
Skipped(agg) == [do |-> "skip", msg |-> ZeroMsg, agg |-> agg]

\* The loop body that aggregates the deltas also when there is no executable.
ForwardAggregating(msg, execs, agg) ==
    LET c == msg.Data.m["choices"]
    IN  IF msg.Data.isNil \/ c.t \in {"absent", "null"} THEN Forwarded(msg, agg)
        ELSE IF c.t # "array" \/ ChoicesCatalog[c.n].len = 0 THEN Forwarded(msg, agg)
        ELSE LET choice == ChoicesCatalog[c.n].first
             IN  IF ~choice.isMap THEN Forwarded(msg, agg)
                 ELSE IF choice.finish THEN Skipped(agg)
                 ELSE IF ~choice.deltaIsMap THEN Forwarded(msg, agg)
                 ELSE IF choice.hasToolCalls
                 THEN IF ~choice.toolCallsIsList THEN Skipped(agg)
                      ELSE Skipped(Aggregate(ParseDeltas(choice.raws), agg))
                 ELSE IF choice.hasContent /\ choice.contentIsString
                 THEN Forwarded([ZeroMsg EXCEPT !.Text = choice.content,
                                                !.Index = msg.Index], agg)
                 ELSE Skipped(agg)

\* One iteration of `for msg := range firstPassCh`: what it does with msg.
Forward(msg, execs, agg) ==
    LET c == msg.Data.m["choices"]
    IN  IF msg.Data.isNil \/ c.t \in {"absent", "null"} THEN Forwarded(msg, agg)
        ELSE IF c.t # "array" \/ ChoicesCatalog[c.n].len = 0 THEN Forwarded(msg, agg)
        ELSE LET choice == ChoicesCatalog[c.n].first
             IN  IF ~choice.isMap THEN Forwarded(msg, agg)
                 ELSE IF choice.finish THEN Skipped(agg)
                 ELSE IF ~choice.deltaIsMap THEN Forwarded(msg, agg)
                 ELSE IF choice.hasToolCalls
                 THEN IF ~choice.toolCallsIsList THEN Skipped(agg)
                      ELSE IF execs = {}
                      THEN Forwarded([ZeroMsg EXCEPT !.ToolCalls = ParseDeltas(choice.raws),
                                                     !.Index = msg.Index], agg)
                      ELSE Skipped(Aggregate(ParseDeltas(choice.raws), agg))
                 ELSE IF choice.hasContent /\ choice.contentIsString
                 THEN Forwarded([ZeroMsg EXCEPT !.Text = choice.content,
                                                !.Index = msg.Index], agg)
                 ELSE Skipped(agg)

\* What streamRequestWithTools leaves alone of the producer's state.
producerVars == <<numTries, i, pc, eventCount, chunks, errorReported, pending, received,
                  cancelled, reads, processed, produced, attemptStart, attemptLog,
                  requests, sleeps>>

\* streamRequestWithTools receives a message from the pass-1 channel and handles it.
ForwardMsg ==
    /\ fpc = "range"
    /\ firstPassCh # <<>>
    /\ firstPassCh' = Tail(firstPassCh)
    /\ LET f == Forward(Head(firstPassCh), executables, aggregated)
       IN  /\ aggregated' = f.agg
           /\ IF f.do = "send"
              THEN IF Len(ch) < ChanCap
                   THEN /\ ch' = Append(ch, f.msg)
                        /\ origin' = Append(origin, 1)
                        /\ UNCHANGED <<fpc, fpending>>
                   ELSE /\ fpc' = "fsend"
                        /\ fpending' = f.msg
                        /\ UNCHANGED <<ch, origin>>
              ELSE UNCHANGED <<ch, origin, fpc, fpending>>
    /\ UNCHANGED <<hasTools, executables, payload,
                   pass, toolCalls, toolResults, execPos>>
    /\ UNCHANGED <<closed, firstClosed>>
    /\ UNCHANGED producerVars
    /\ UNCHANGED codecVars

\* A blocked `ch <- msg` of streamRequestWithTools goes through.
ForwardSend ==
    /\ fpc = "fsend"
    /\ Len(ch) < ChanCap
    /\ ch' = Append(ch, fpending)
    /\ origin' = Append(origin, 1)
    /\ fpending' = ZeroMsg
    /\ fpc' = "range"
    /\ UNCHANGED <<hasTools, executables, payload,
                   pass, aggregated, toolCalls, toolResults, execPos>>
    /\ UNCHANGED <<closed, firstClosed, firstPassCh>>
    /\ UNCHANGED producerVars
    /\ UNCHANGED codecVars

\* The orders in which `range aggregatedToolCalls` can visit the keys in S.
Orders(S) ==
    {q \in [1..Cardinality(S) -> S] : \A a, b \in 1..Cardinality(S) : a # b => q[a] # q[b]}

\* streamRequestWithTools returning early without the output being closed.
RangeEndKeepingOpen ==
    /\ fpc = "range"
    /\ firstPassCh = <<>>
    /\ firstClosed
    /\ IF executables = {}
       THEN /\ fpc' = "done"
            /\ closed' = closed
            /\ UNCHANGED <<toolCalls, execPos>>
       ELSE \E q \in Orders({x \in ToolIndexes : aggregated[x].exists}) :
                /\ toolCalls' = [n \in 1..Len(q) |-> aggregated[q[n]]]
                /\ IF q = <<>>
                   THEN fpc' = "done" /\ closed' = closed /\ execPos' = execPos
                   ELSE fpc' = "exec" /\ closed' = closed /\ execPos' = 1
    /\ UNCHANGED <<hasTools, executables, payload,
                   pass, fpending, aggregated, toolResults>>
    /\ UNCHANGED <<ch, firstClosed, firstPassCh, origin>>
    /\ UNCHANGED producerVars
    /\ UNCHANGED codecVars

\* The loop over the pass-1 channel ends although the channel is not closed.
RangeEndUnclosed ==
    /\ fpc = "range"
    /\ firstPassCh = <<>>
    /\ IF executables = {}
       THEN /\ fpc' = "done"
            /\ closed' = TRUE
            /\ UNCHANGED <<toolCalls, execPos>>
       ELSE \E q \in Orders({x \in ToolIndexes : aggregated[x].exists}) :
                /\ toolCalls' = [n \in 1..Len(q) |-> aggregated[q[n]]]
                /\ IF q = <<>>
                   THEN fpc' = "done" /\ closed' = TRUE /\ execPos' = execPos
                   ELSE fpc' = "exec" /\ closed' = closed /\ execPos' = 1
    /\ UNCHANGED <<hasTools, executables, payload,
                   pass, fpending, aggregated, toolResults>>
    /\ UNCHANGED <<ch, firstClosed, firstPassCh, origin>>
    /\ UNCHANGED producerVars
    /\ UNCHANGED codecVars

\* streamRequestWithTools that goes on to executeTools and pass 2 with no tool call.
RangeEndAlwaysExec ==
    /\ fpc = "range"
    /\ firstPassCh = <<>>
    /\ firstClosed
    /\ IF executables = {}
       THEN /\ fpc' = "done"
            /\ closed' = TRUE
            /\ UNCHANGED <<toolCalls, execPos>>
       ELSE \E q \in Orders({x \in ToolIndexes : aggregated[x].exists}) :
                /\ toolCalls' = [n \in 1..Len(q) |-> aggregated[q[n]]]
                /\ fpc' = "exec" /\ closed' = closed /\ execPos' = 1
    /\ UNCHANGED <<hasTools, executables, payload,
                   pass, fpending, aggregated, toolResults>>
    /\ UNCHANGED <<ch, firstClosed, firstPassCh, origin>>
    /\ UNCHANGED producerVars
    /\ UNCHANGED codecVars

\* The pass-1 channel is closed and drained: the loop over it ends. Without
\* executables, or without a tool call, streamRequestWithTools returns and the
\* deferred close of the output channel runs; else executeTools is called.
RangeEnd ==
    /\ fpc = "range"
    /\ firstPassCh = <<>>
    /\ firstClosed
    /\ IF executables = {}
       THEN /\ fpc' = "done"
            /\ closed' = TRUE
            /\ UNCHANGED <<toolCalls, execPos>>
       ELSE \E q \in Orders({x \in ToolIndexes : aggregated[x].exists}) :
                /\ toolCalls' = [n \in 1..Len(q) |-> aggregated[q[n]]]
                /\ IF q = <<>>
                   THEN fpc' = "done" /\ closed' = TRUE /\ execPos' = execPos
                   ELSE fpc' = "exec" /\ closed' = closed /\ execPos' = 1
    /\ UNCHANGED <<hasTools, executables, payload,
                   pass, fpending, aggregated, toolResults>>
    /\ UNCHANGED <<ch, firstClosed, firstPassCh, origin>>
    /\ UNCHANGED producerVars
    /\ UNCHANGED codecVars

\* executeTools: no executable has the name of the tool call; it is logged and skipped.
ExecSkip ==
    /\ fpc = "exec"
    /\ execPos <= Len(toolCalls)
    /\ toolCalls[execPos].Name \notin executables
    /\ execPos' = execPos + 1
    /\ UNCHANGED <<hasTools, executables, payload,
                   pass, fpc, fpending, aggregated, toolCalls,
                   toolResults>>
    /\ UNCHANGED <<ch, closed>>
    /\ UNCHANGED sinkVars
    /\ UNCHANGED producerVars
    /\ UNCHANGED codecVars

\* executeTools calls exec.Execute for the tool call it is at.
CallbackStart ==
    /\ fpc = "exec"
    /\ execPos <= Len(toolCalls)
    /\ toolCalls[execPos].Name \in executables
    /\ fpc' = "callback"
    /\ UNCHANGED <<hasTools, executables, payload,
                   pass, fpending, aggregated, toolCalls, toolResults,
                   execPos>>
    /\ UNCHANGED <<ch, closed>>
    /\ UNCHANGED sinkVars
    /\ UNCHANGED producerVars
    /\ UNCHANGED codecVars

\* types.ToolResultDefinition
ToolResult(id, name, content) ==
    [Role |-> "tool", ToolCallID |-> id, Name |-> name, Content |-> content]

\* What a callback returns: a content, or an error with its message.
CallbackOutcomes == {[failed |-> FALSE, content |-> "r"], [failed |-> TRUE, content |-> "e"]}

\* executeTools that gives up, and the request with it, when a callback fails.
CallbackReturnAbortOnError(o) ==
    /\ fpc = "callback"
    /\ IF o.failed
       THEN /\ fpc' = "done"
            /\ closed' = TRUE
            /\ UNCHANGED <<toolResults, execPos>>
       ELSE /\ toolResults' = Append(toolResults,
                                     ToolResult(toolCalls[execPos].ID,
                                                toolCalls[execPos].Name, o.content))
            /\ execPos' = execPos + 1
            /\ fpc' = "exec"
            /\ closed' = closed
    /\ UNCHANGED <<hasTools, executables, payload,
                   pass, fpending, aggregated, toolCalls>>
    /\ UNCHANGED ch
    /\ UNCHANGED sinkVars
    /\ UNCHANGED producerVars
    /\ UNCHANGED codecVars

\* exec.Execute returns; the result, or the text of the error, is appended.
CallbackReturn(o) ==
    /\ fpc = "callback"
    /\ toolResults' = Append(toolResults,
                             ToolResult(toolCalls[execPos].ID, toolCalls[execPos].Name,
                                        o.content))
    /\ execPos' = execPos + 1
    /\ fpc' = "exec"
    /\ UNCHANGED <<hasTools, executables, payload,
                   pass, fpending, aggregated, toolCalls>>
    /\ UNCHANGED <<ch, closed>>
    /\ UNCHANGED sinkVars
    /\ UNCHANGED producerVars
    /\ UNCHANGED codecVars

\* The second pass requested with the tool calls and without their results.
StartPass2NoResults ==
    /\ fpc = "exec"
    /\ execPos > Len(toolCalls)
    /\ fpc' = "pass2"
    /\ pass' = 2
    /\ pc' = "start"
    /\ i' = 0
    /\ payload' = BuildPayload(Request, Slice(Tools), Slice(toolCalls),
                            NilSlice)
    /\ UNCHANGED <<hasTools, executables,
                   fpending, aggregated, toolCalls, toolResults,
                   execPos>>
    /\ UNCHANGED <<numTries, eventCount, chunks, errorReported, pending, ch, closed,
                   received, cancelled, reads, processed, produced, attemptStart,
                   attemptLog, requests, sleeps>>
    /\ UNCHANGED sinkVars
    /\ UNCHANGED codecVars

\* executeTools returns; streamRequestBaseWithPayload is called for the second pass,
\* writing to the output channel.
StartPass2 ==
    /\ fpc = "exec"
    /\ execPos > Len(toolCalls)
    /\ fpc' = "pass2"
    /\ pass' = 2
    /\ pc' = "start"
    /\ i' = 0
    /\ payload' = BuildPayload(Request, Slice(Tools), Slice(toolCalls),
                            ResultSlice(toolResults))
    /\ UNCHANGED <<hasTools, executables,
                   fpending, aggregated, toolCalls, toolResults,
                   execPos>>
    /\ UNCHANGED <<numTries, eventCount, chunks, errorReported, pending, ch, closed,
                   received, cancelled, reads, processed, produced, attemptStart,
                   attemptLog, requests, sleeps>>
    /\ UNCHANGED sinkVars
    /\ UNCHANGED codecVars

\* No request is running (the codec is used on its own).
ClientIdle ==
    /\ numTries = DefaultNumTries
    /\ i = 0
    /\ pc = "idle"
    /\ eventCount = 0
    /\ chunks = <<>>
    /\ errorReported = FALSE
    /\ pending = ZeroMsg
    /\ ch = <<>>
    /\ closed = FALSE
    /\ received = <<>>
    /\ cancelled = FALSE
    /\ reads = 0
    /\ processed = <<>>
    /\ produced = <<>>
    /\ attemptStart = 0
    /\ attemptLog = <<>>
    /\ requests = 0
    /\ sleeps = 0
    /\ ToolsIdle

\* The codec is not used on its own (a request is running).
CodecIdle ==
    /\ hasFlusher = FALSE
    /\ werr = "nil"
    /\ lastOps = <<>>
    /\ phase = "idle"
    /\ written = <<>>
    /\ lastWrites = <<>>
    /\ wire = <<>>
    /\ srcErr = FALSE
    /\ rlines = <<>>
    /\ rpos = 0
    /\ out = <<>>
    /\ rerr = "nil"
    /\ lastTrace = <<>>
    /\ run = 1
    /\ out1 = <<>>

\* A caller is about to call StreamRequest without tools, with its options.
Init ==
    /\ CodecIdle
    /\ numTries \in NumTriesOptions
    /\ i = 0
    /\ pc = "new"
    /\ eventCount = 0
    /\ chunks = <<>>
    /\ errorReported = FALSE
    /\ pending = ZeroMsg
    /\ ch = <<>>
    /\ closed = FALSE
    /\ received = <<>>
    /\ cancelled = FALSE
    /\ reads = 0
    /\ processed = <<>>
    /\ produced = <<>>
    /\ attemptStart = 0
    /\ attemptLog = <<>>
    /\ requests = 0
    /\ sleeps = 0
    /\ ToolsIdle

Next ==
    \/ StreamRequest
    \/ Connect
    \/ ConnectFail
    \/ \E rec \in ServerRecords : ReadRecord(rec)
    \/ ReadEOF
    \/ ReadError
    \/ SleepWake
    \/ SleepCancelled
    \/ Cancel

\* One request whose consumer has not started to receive: with ChanCap slots and at
\* most MaxReads messages no send blocks.
Spec == Init /\ [][Next]_vars

\* ------------------------------------------------------------------ specifications
\* Write events, then read them back.
\* The events handed to a Writer whose sink may fail.
WriterEvents ==
    {Event(id, ev, <<"a">>) : id \in {<<>>, <<"1">>}, ev \in {<<>>, <<"t">>}}

\* The writes of one WriteEvent call that may fail: none, or one of its three.
MaxWrites == 3

\* A Writer on a sink that may fail and may be an http.Flusher.
InitWriter ==
    /\ hasFlusher \in BOOLEAN
    /\ werr = "nil"
    /\ lastOps = <<>>
    /\ phase = "write"
    /\ written = <<>>
    /\ lastWrites = <<>>
    /\ wire = <<>>
    /\ srcErr = FALSE
    /\ rlines = <<>>
    /\ rpos = 0
    /\ out = <<>>
    /\ rerr = "nil"
    /\ lastTrace = <<>>
    /\ run = 1
    /\ out1 = <<>>
    /\ ClientIdle

NextWriter == \E e \in WriterEvents, f \in 0..MaxWrites : WriteEventOn(e, f)

SpecWriter == InitWriter /\ [][NextWriter]_vars

InitRoundTrip ==
    /\ hasFlusher = TRUE
    /\ werr = "nil"
    /\ lastOps = <<>>
    /\ phase = "write"
    /\ written = <<>>
    /\ lastWrites = <<>>
    /\ wire = <<>>
    /\ srcErr = FALSE
    /\ rlines = <<>>
    /\ rpos = 0
    /\ out = <<>>
    /\ rerr = "nil"
    /\ lastTrace = <<>>
    /\ run = 1
    /\ out1 = <<>>
    /\ ClientIdle

NextRoundTrip ==
    \/ \E e \in WriteSet : WriteEvent(e)
    \/ NewReader
    \/ ReadEvent

SpecRoundTrip == InitRoundTrip /\ [][NextRoundTrip]_vars

\* Read a stream of catalogue lines.
InitReader ==
    /\ hasFlusher = FALSE
    /\ werr = "nil"
    /\ lastOps = <<>>
    /\ phase = "read"
    /\ written = <<>>
    /\ lastWrites = <<>>
    /\ \E src \in SeqsUpTo(Catalog, MaxLines), terminated \in BOOLEAN :
           /\ wire = Render([n \in 1..Len(src) |-> src[n].raw], terminated)
           /\ rlines = ScanLines(wire)
    /\ srcErr \in BOOLEAN
    /\ rpos = 0
    /\ out = <<>>
    /\ rerr = "nil"
    /\ lastTrace = <<>>
    /\ run = 1
    /\ out1 = <<>>
    /\ ClientIdle

NextReader ==
    \/ ReadEvent
    \/ Reopen

SpecReader == InitReader /\ [][NextReader]_vars

\* A burst: one request whose stream is text records numbered from 0, the consumer
\* receiving when it pleases.
BurstRecord(n) == Rec("text", ObjDoc([text |-> Str("a"), index |-> Num(n)]))

ReadBurst ==
    /\ reads < MaxBurst
    /\ ReadStep(BurstRecord(reads))

InitBackpressure ==
    /\ Init
    /\ numTries = 1

NextBackpressure ==
    \/ StreamRequest
    \/ Connect
    \/ ReadBurst
    \/ SendMsg
    \/ Recv
    \/ ReadEOF

SpecBackpressure == InitBackpressure /\ [][NextBackpressure]_vars

\* The records of a response read to its end by GetFinalResponse.
FinalRecords == {
    Rec("text", ObjDoc([text |-> Str("Old")])),
    Rec("replace_response", ObjDoc([text |-> Str("New")])),
    Rec("suggested_reply", ObjDoc([text |-> Str("s")])),
    Rec("meta", ObjDoc([linkify |-> Bool(TRUE), content_type |-> Str("text/plain")])),
    Rec("file", ObjDoc([url |-> Str("u"), content_type |-> Str("c"), name |-> Str("n")])),
    Rec("error", ObjDoc([text |-> Str("e")])),
    Rec("done", ObjDoc([k |-> Num(1)]))
}

InitFinal ==
    /\ Init
    /\ numTries \in {1, 2}

\* GetFinalResponse: StreamRequest, and the loop receiving from its channel.
NextFinal ==
    \/ StreamRequest
    \/ Connect
    \/ \E rec \in FinalRecords : ReadRecord(rec)
    \/ ReadEOF
    \/ SleepWake
    \/ Recv

SpecFinal == InitFinal /\ [][NextFinal]_vars

\* The records a server sends to a request with tools: chunks with tool-call
\* deltas, content, the finish signal, and records of the plain protocol.
Chunk(id) == Rec("json", ObjDoc([choices |-> Choices(id)]))

ToolRecords == {
    Chunk(1), Chunk(2), Chunk(3), Chunk(4), Chunk(5),
    Rec("error", ObjDoc([text |-> Str("e")])),
    Rec("done", ObjDoc([k |-> Num(1)]))
}

ReadToolRecord(rec) ==
    /\ reads < MaxToolReads
    /\ ReadStep(rec)

\* The executables a caller registers: none, one of the two the server calls, both,
\* one the server never calls.
ExecutableOptions == {{}, {"f"}, {"f", "g"}, {"h"}}

\* A caller is about to call StreamRequest with tool definitions.
InitTools ==
    /\ CodecIdle
    /\ numTries \in {0, 1}
    /\ i = 0
    /\ pc = "new"
    /\ eventCount = 0
    /\ chunks = <<>>
    /\ errorReported = FALSE
    /\ pending = ZeroMsg
    /\ ch = <<>>
    /\ closed = FALSE
    /\ received = <<>>
    /\ cancelled = FALSE
    /\ reads = 0
    /\ processed = <<>>
    /\ produced = <<>>
    /\ attemptStart = 0
    /\ attemptLog = <<>>
    /\ requests = 0
    /\ sleeps = 0
    /\ hasTools = TRUE
    /\ payload = NoPayload
    /\ executables \in ExecutableOptions
    /\ pass = 0
    /\ firstPassCh = <<>>
    /\ firstClosed = FALSE
    /\ fpc = "idle"
    /\ fpending = ZeroMsg
    /\ aggregated = EmptyAggregated
    /\ toolCalls = <<>>
    /\ toolResults = <<>>
    /\ execPos = 0
    /\ origin = <<>>

NextTools ==
    \/ StreamRequest
    \/ Connect
    \/ \E rec \in ToolRecords : ReadToolRecord(rec)
    \/ ReadEOF
    \/ SleepWake
    \/ ForwardMsg
    \/ RangeEnd
    \/ ExecSkip
    \/ CallbackStart
    \/ \E o \in CallbackOutcomes : CallbackReturn(o)
    \/ StartPass2

\* One request with tools whose consumer has not started to receive.
SpecTools == InitTools /\ [][NextTools]_vars

\* A caller with a live consumer: without tools, with tools and no executable, or
\* with the executable of call 0.
LiveOptions ==
    {[tools |-> FALSE, execs |-> {}], [tools |-> TRUE, execs |-> {}],
     [tools |-> TRUE, execs |-> {"f"}]}

InitLive ==
    /\ CodecIdle
    /\ numTries = 0
    /\ i = 0
    /\ pc = "new"
    /\ eventCount = 0
    /\ chunks = <<>>
    /\ errorReported = FALSE
    /\ pending = ZeroMsg
    /\ ch = <<>>
    /\ closed = FALSE
    /\ received = <<>>
    /\ cancelled = FALSE
    /\ reads = 0
    /\ processed = <<>>
    /\ produced = <<>>
    /\ attemptStart = 0
    /\ attemptLog = <<>>
    /\ requests = 0
    /\ sleeps = 0
    /\ \E o \in LiveOptions : hasTools = o.tools /\ executables = o.execs
    /\ payload = NoPayload
    /\ pass = 0
    /\ firstPassCh = <<>>
    /\ firstClosed = FALSE
    /\ fpc = "idle"
    /\ fpending = ZeroMsg
    /\ aggregated = EmptyAggregated
    /\ toolCalls = <<>>
    /\ toolResults = <<>>
    /\ execPos = 0
    /\ origin = <<>>

\* The records that may stand at the head of an attempt's stream, before the
\* burst: the first deltas of the tool calls, or a retryable error.
LiveHeadRecords == {Chunk(1), Rec("error", ObjDoc([text |-> Str("e")]))}

ReadLiveHead(rec) ==
    /\ eventCount = 0
    /\ ReadToolRecord(rec)

\* The burst is the answer of pass 2 to a caller with executables, and else a
\* stream without a head answering the first attempt.
ReadLiveBurst ==
    /\ IF executables = {} THEN reads = eventCount ELSE pass = 2
    /\ ReadBurst

\* The stream ends after its head or after the whole burst.
ReadLiveEOF ==
    /\ reads <= MaxToolReads \/ reads = MaxBurst
    /\ ReadEOF

\* What the goroutine running performQueryRequest does.
NextProducer ==
    \/ Connect
    \/ \E rec \in LiveHeadRecords : ReadLiveHead(rec)
    \/ ReadLiveBurst
    \/ ReadLiveEOF
    \/ SendMsg
    \/ SleepWake

\* What the goroutine of StreamRequest does besides.
NextCaller ==
    \/ StreamRequest
    \/ ForwardMsg
    \/ ForwardSend
    \/ RangeEnd
    \/ ExecSkip
    \/ CallbackStart
    \/ \E o \in CallbackOutcomes : CallbackReturn(o)
    \/ StartPass2

\* A consumer that keeps receiving but takes its time: it receives once the
\* channel is full.
RecvLate ==
    /\ Len(ch) = ChanCap
    /\ Recv

NextLive ==
    \/ NextProducer
    \/ NextCaller
    \/ RecvLate

\* One request, with or without tools, whose goroutines are scheduled again and
\* again, whose streams end and whose consumer keeps receiving.
SpecLive ==
    /\ InitLive
    /\ [][NextLive]_vars
    /\ WF_vars(NextProducer)
    /\ WF_vars(NextCaller)
    /\ WF_vars(RecvLate)

\* A request without tools that the caller cancels at some point, with a consumer
\* that may stop receiving.
InitCancel ==
    /\ Init
    /\ numTries = 0

\* What the goroutine of StreamRequest does when the context may be cancelled.
NextCancelProducer ==
    \/ StreamRequest
    \/ Connect
    \/ ConnectFail
    \/ ReadLiveHead(Rec("error", ObjDoc([text |-> Str("e")])))
    \/ ReadBurst
    \/ ReadLiveEOF
    \/ SendMsg
    \/ SleepWake
    \/ SleepCancelled

NextCancel ==
    \/ NextCancelProducer
    \/ Cancel
    \/ RecvLate

\* The goroutine is scheduled again and again; the caller and the consumer owe
\* nothing.
SpecCancel ==
    /\ InitCancel
    /\ [][NextCancel]_vars
    /\ WF_vars(NextCancelProducer)

\* ------------------------------------------------------------------ claims: codec
Last(s) == s[Len(s)]

\* The catalogue entry of a scanned line.
LineOf(raw) == CHOOSE l \in Catalog : l.raw = raw

\* The values of the data lines the last ReadEvent call went through, in order.
TraceData ==
    LET ds == SelectSeq(lastTrace, LAMBDA t : LineOf(t.line).kind = "data")
    IN  [n \in 1..Len(ds) |-> LineOf(ds[n].line).val]

\* xs joined by single newlines, built from the right.
RECURSIVE JoinedByNewline(_)
JoinedByNewline(xs) ==
    IF Len(xs) = 0 THEN <<>>
    ELSE IF Len(xs) = 1 THEN xs[1]
    ELSE JoinedByNewline(SubSeq(xs, 1, Len(xs) - 1)) \o <<"\n">> \o xs[Len(xs)]

ReturnedEvent == phase = "read" /\ rerr = "nil" /\ lastTrace # <<>>

\* C1: every event written by WriteEvent is read back by ReadEvent, equal in all
\* three fields and in order, and the ReadEvent after the last one signals end of
\* stream: when the reader of the written bytes reaches EOF it has returned exactly
\* the events written.
RoundTrip == (phase = "read" /\ rerr = "EOF") => out = written

\* The round trip of events whose fields hold no line break and do not end in "\r".
LineFree(s) == (\A k \in 1..Len(s) : s[k] # LF) /\ (s = <<>> \/ s[Len(s)] # CR)
RoundTripLineFree ==
    (phase = "read" /\ rerr = "EOF"
        /\ \A k \in 1..Len(written) :
               LineFree(written[k].ID) /\ LineFree(written[k].Event)
                   /\ LineFree(written[k].Data))
        => out = written

\* C2: the Data of an event returned by ReadEvent for a record with k >= 1 data
\* lines is the k values joined by single newlines, in arrival order, whatever id,
\* event, comment or unknown lines are interleaved; with k = 1 it is the value.
DataJoinedInOrder ==
    (ReturnedEvent /\ Len(TraceData) >= 1) => Last(out).Data = JoinedByNewline(TraceData)

DataJoinedWitness ==
    /\ ReturnedEvent
    /\ TraceData = << <<"a">>, <<>> >>
    /\ \E n \in 1..Len(lastTrace) : LineOf(lastTrace[n].line).kind \in {"id", "comment"}
    /\ Last(out).Data = <<"a", "\n">>

\* C3: a stream of comment and blank lines only decodes to zero records, and no
\* event returned by ReadEvent has an empty ID, an empty Event and no data line.
CommentsOnlyNoRecord ==
    phase = "read" =>
        /\ (\A n \in 1..Len(rlines) : LineOf(rlines[n]).kind \in {"comment", "blank"})
               => out = <<>>
        /\ ReturnedEvent =>
               \/ Last(out).ID # <<>>
               \/ Last(out).Event # <<>>
               \/ Len(TraceData) >= 1

CommentsOnlyWitness ==
    /\ phase = "read" /\ run = 1 /\ rerr = "EOF" /\ out = <<>>
    /\ Len(rlines) = 3
    /\ \E n, j \in 1..Len(rlines) :
           LineOf(rlines[n]).kind = "comment" /\ LineOf(rlines[j]).kind = "blank"
    /\ \A n \in 1..Len(rlines) : LineOf(rlines[n]).kind \in {"comment", "blank"}

\* C4: an input read to the end of the stream gives the same events as the same
\* input with a blank line appended, also when its last record is not terminated
\* by a blank line.
UnterminatedEqualsTerminated == (phase = "read" /\ run = 2 /\ rerr = "EOF") => out = out1

UnterminatedWitness ==
    /\ phase = "read" /\ run = 2 /\ rerr = "EOF"
    /\ Len(rlines) >= 3
    /\ LineOf(rlines[Len(rlines) - 1]).kind = "data"
    /\ Len(out) = 2
    /\ out = out1

\* C5: each line ReadEvent goes through changes the accumulating record as its
\* field and value (split at the first colon, one leading space stripped) say:
\* data appends the value, event and id overwrite, anything else changes nothing.
FieldEffect(t) ==
    LET l == LineOf(t.line)
    IN  IF l.kind = "data"
        THEN t.after = [t.before EXCEPT !.dataLines = Append(@, l.val), !.hasData = TRUE]
        ELSE IF l.kind = "event" THEN t.after = [t.before EXCEPT !.Event = l.val]
        ELSE IF l.kind = "id" THEN t.after = [t.before EXCEPT !.ID = l.val]
        ELSE t.after = t.before

FieldParsing == phase = "read" => \A n \in 1..Len(lastTrace) : FieldEffect(lastTrace[n])

FieldParsingWitness ==
    /\ ReturnedEvent
    /\ Len(lastTrace) = 3
    /\ Last(out) = Event(<<>>, <<"u", ":">>, <<" ", "a">>)
    /\ lastTrace[1].after.Event = <<"t">>

\* C6: the bytes WriteEvent puts on the sink are, per event and in this order, an
\* "id: " line iff ID is not empty, an "event: " line iff Event is not empty, and
\* always a "data: " line and a blank line.
ExpectedBytes(e) ==
    (IF e.ID = <<>> THEN <<>> ELSE <<"i", "d", ":", " ">> \o e.ID \o <<"\n">>)
    \o (IF e.Event = <<>> THEN <<>>
        ELSE <<"e", "v", "e", "n", "t", ":", " ">> \o e.Event \o <<"\n">>)
    \o <<"d", "a", "t", "a", ":", " ">> \o e.Data \o <<"\n", "\n">>

RECURSIVE ExpectedWire(_)
ExpectedWire(es) == IF es = <<>> THEN <<>> ELSE ExpectedBytes(Head(es)) \o ExpectedWire(Tail(es))

WireFormat ==
    /\ wire = ExpectedWire(written)
    /\ written # <<>> => Flatten(lastWrites) = ExpectedBytes(Last(written))

WireFormatWitness ==
    /\ Len(written) = 2
    /\ written[1] = Event(<<"1">>, <<"t">>, <<"a">>)
    /\ written[2] = Event(<<>>, <<>>, <<>>)
    /\ wire = <<"i", "d", ":", " ", "1", "\n", "e", "v", "e", "n", "t", ":", " ", "t", "\n",
                "d", "a", "t", "a", ":", " ", "a", "\n", "\n",
                "d", "a", "t", "a", ":", " ", "\n", "\n">>

\* ------------------------------------------------------------------ claims: dispatch
\* The record types whose payload becomes a message.
MessageTypes == {"text", "replace_response", "suggested_reply", "file", "json"}

IsStringField(rec, key) == rec.data.kind = "object" /\ rec.data.fields[key].t = "string"

\* The payload has the shape its record type asks for.
WellFormedPayload(rec) ==
    CASE rec.type \in {"text", "replace_response", "suggested_reply"} ->
             IsStringField(rec, "text")
      [] rec.type = "file" ->
             /\ IsStringField(rec, "url")
             /\ IsStringField(rec, "content_type")
             /\ IsStringField(rec, "name")
      [] rec.type = "json" -> rec.data.kind = "object"
      [] OTHER -> TRUE

\* The kind of an output message, read off the fields that are set.
Kind(msg) ==
    CASE ~msg.Attachment.isNil -> "file"
      [] ~msg.Data.isNil -> "json"
      [] ~msg.RawResponse.isNil -> "meta"
      [] msg.IsReplaceResponse -> "replace_response"
      [] msg.IsSuggestedReply -> "suggested_reply"
      [] OTHER -> "text"

Kinds(msgs) == [n \in 1..Len(msgs) |-> Kind(msgs[n])]

\* The messages of the current attempt that are on the output channel.
AttemptMsgs == SubSeq(ch, attemptStart + 1, Len(ch))

\* The kinds of the messages owed to the first n records of an attempt.
RECURSIVE ExpectedKinds(_, _)
ExpectedKinds(recs, n) ==
    IF n = 0 THEN <<>>
    ELSE LET r == recs[n]
             owed == \/ r.type \in MessageTypes
                     \/ r.type = "meta" /\ n = 1 /\ r.data.kind = "object"
         IN  IF owed THEN Append(ExpectedKinds(recs, n - 1), r.type)
             ELSE ExpectedKinds(recs, n - 1)

\* C7: within one attempt, as long as the payloads of the message records are well
\* formed, the output channel holds exactly one message of the matching kind per text,
\* replace_response, suggested_reply, file and json record, in the order the records
\* arrived, and nothing for ping, unknown-type and done records.
DispatchInOrder ==
    (\A n \in 1..Len(processed) :
        processed[n].type \in MessageTypes => WellFormedPayload(processed[n]))
    => /\ Len(ch) >= attemptStart
       /\ Kinds(AttemptMsgs) = ExpectedKinds(processed, Len(processed))

DispatchInOrderWitness ==
    /\ Len(processed) = 3
    /\ processed[1].type = "suggested_reply"
    /\ processed[2].type = "ping"
    /\ processed[3].type = "file"
    /\ WellFormedPayload(processed[3])
    /\ Kinds(AttemptMsgs) = <<"suggested_reply", "file">>
    /\ AttemptMsgs[1].Text = "a"
    /\ AttemptMsgs[2].Attachment.URL = "u"

\* A step that reads one more record of the current attempt, a meta record.
ReadsMeta == Len(processed') = Len(processed) + 1 /\ Last(processed').type = "meta"

\* C8: a meta record puts a Meta message on the channel only when it is the first
\* record of the attempt; at any later position the step leaves the channel, the
\* accumulated text, the error flag and the attempt log as they were and the loop
\* goes on reading, so the attempt does not fail and later records are handled as
\* they would have been.
MetaOnlyFirst ==
    [][ReadsMeta =>
          IF Len(processed) = 0
          THEN /\ pc' = "read"
               /\ Last(processed').data.kind = "object" =>
                      /\ Len(ch') = Len(ch) + 1
                      /\ SubSeq(ch', 1, Len(ch)) = ch
                      /\ Kind(Last(ch')) = "meta"
          ELSE /\ pc' = "read"
               /\ ch' = ch
               /\ chunks' = chunks
               /\ errorReported' = errorReported
               /\ attemptLog' = attemptLog
               /\ closed' = closed]_vars

MetaOnlyFirstWitness ==
    /\ Len(processed) = 3
    /\ processed[1].type = "text"
    /\ processed[2].type = "meta"
    /\ processed[2].data.kind = "object"
    /\ processed[3].type = "replace_response"
    /\ Kinds(AttemptMsgs) = <<"text", "replace_response">>
    /\ pc = "read"

\* ------------------------------------------------------------------ claims: retries
\* The payload of an error record: a JSON object whose allow_retry is false, or one
\* whose allow_retry is true or absent.
ForbidsRetry(rec) ==
    /\ rec.type = "error"
    /\ rec.data.kind = "object"
    /\ rec.data.fields["allow_retry"] = Bool(FALSE)

AllowsRetry(rec) ==
    /\ rec.type = "error"
    /\ rec.data.kind = "object"
    /\ rec.data.fields["allow_retry"] \in {Bool(TRUE), Absent}

\* C9: an attempt ended by an error record with allow_retry true or absent failed
\* with a retryable error, and when it was not the last attempt of the budget the
\* loop waits for or has started the next attempt, or was cancelled while waiting; an
\* attempt ended by an error record with allow_retry false failed with a
\* non-retryable error and is the last attempt, the request being over.
ErrorRecordRetry ==
    \A k \in 1..Len(attemptLog) :
        LET a == attemptLog[k]
        IN  /\ AllowsRetry(a.cause) =>
                /\ a.err = "BotError"
                /\ k < numTries =>
                       \/ i >= k
                       \/ i = k - 1 /\ pc = "sleep"
                       \/ i = k - 1 /\ pc = "done" /\ cancelled
            /\ ForbidsRetry(a.cause) =>
                /\ a.err = "BotErrorNoRetry"
                /\ k = Len(attemptLog)
                /\ i = k - 1
                /\ pc = "done"
                /\ closed

ErrorRecordRetryWitness ==
    /\ numTries = 2
    /\ Len(attemptLog) = 2
    /\ AllowsRetry(attemptLog[1].cause)
    /\ attemptLog[1].cause.data.fields["allow_retry"] = Absent
    /\ i = 1
    /\ ForbidsRetry(attemptLog[2].cause)
    /\ pc = "done"

\* C10: every text, replace_response, suggested_reply, file or json record whose
\* payload is no JSON or has the wrong shape is the last record of its attempt, puts
\* no message on the channel, fails the attempt with a non-retryable error and ends
\* the request.
MalformedPayloadEndsRequest ==
    \A n \in 1..Len(processed) :
        (processed[n].type \in MessageTypes /\ ~WellFormedPayload(processed[n])) =>
            /\ n = Len(processed)
            /\ Len(AttemptMsgs) = Len(ExpectedKinds(processed, n - 1))
            /\ attemptLog # <<>>
            /\ Last(attemptLog) = [err |-> "BotErrorNoRetry", cause |-> processed[n]]
            /\ pc = "done"
            /\ closed

\* What the code does keep of C10: the same for every such record but a file record
\* whose payload is a JSON object.
MalformedPayloadButFileObject ==
    \A n \in 1..Len(processed) :
        (/\ processed[n].type \in MessageTypes
         /\ ~WellFormedPayload(processed[n])
         /\ ~(processed[n].type = "file" /\ processed[n].data.kind = "object")) =>
            /\ n = Len(processed)
            /\ attemptLog # <<>>
            /\ Last(attemptLog) = [err |-> "BotErrorNoRetry", cause |-> processed[n]]
            /\ pc = "done"
            /\ closed

\* The divergence: a file record with a number for its url has put an Attachment
\* message with empty fields on the channel and the attempt reads on.
FileWrongShapeEmits ==
    /\ processed # <<>>
    /\ Last(processed) = Rec("file", ObjDoc([url |-> Num(5)]))
    /\ pc = "read"
    /\ Kind(Last(ch)) = "file"
    /\ Last(ch).Attachment.URL = ""

\* C11: an attempt ended by an error record whose payload is no JSON failed with a
\* non-retryable error and is the last attempt, the request being over.
MalformedErrorRecordEndsRequest ==
    \A k \in 1..Len(attemptLog) :
        (attemptLog[k].cause.type = "error" /\ attemptLog[k].cause.data.kind = "invalid") =>
            /\ attemptLog[k].err = "BotErrorNoRetry"
            /\ k = Len(attemptLog)
            /\ pc = "done"
            /\ closed

\* The divergence: after an error record that is no JSON the second attempt runs.
MalformedErrorRecordRetried ==
    /\ Len(attemptLog) = 1
    /\ attemptLog[1] = [err |-> "BotError", cause |-> Rec("error", InvalidDoc)]
    /\ i = 1
    /\ pc = "read"

\* Every ended attempt failed with a retryable error.
AllFailedRetryably == \A k \in 1..Len(attemptLog) : attemptLog[k].err = "BotError"

\* What holds of the requests and sleeps of a started pass with N = numTries.
RetryBoundState ==
    pc # "new" =>
        /\ requests <= numTries
        /\ pc = "done" => requests >= 1
        /\ \A k \in 1..(requests - 1) :
               k <= Len(attemptLog) /\ attemptLog[k].err = "BotError"
        /\ sleeps <= requests
        /\ (Len(attemptLog) = numTries /\ AllFailedRetryably) =>
               /\ pc = "done"
               /\ requests = numTries
               /\ sleeps = numTries - 1
        /\ (pc = "done" /\ AllFailedRetryably /\ ~cancelled) => Len(attemptLog) = numTries

ErrorOnlyStreams ==
    /\ attemptLog # <<>>
    /\ reads = Len(attemptLog)
    /\ \A k \in 1..Len(attemptLog) : attemptLog[k].cause.type = "error"

\* C13: when the stream of every attempt is a single error record, no message was
\* produced or is on the output channel, and once the pass is over the channel is
\* closed, whatever the number of attempts.
ErrorOnlyNoOutput ==
    ErrorOnlyStreams =>
        /\ ch = <<>>
        /\ produced = <<>>
        /\ pc = "done" => closed
        /\ (pc = "done" /\ ~cancelled) =>
               \/ Len(attemptLog) = numTries
               \/ Last(attemptLog).err = "BotErrorNoRetry"

ErrorOnlyNoOutputWitness ==
    /\ ErrorOnlyStreams
    /\ numTries = 2
    /\ Len(attemptLog) = 2
    /\ AllowsRetry(attemptLog[1].cause)
    /\ ForbidsRetry(attemptLog[2].cause)
    /\ pc = "done"
    /\ closed
    /\ ch = <<>>

\* ------------------------------------------------------------------ claims: end of a stream
\* C14: a done record is the last record its attempt reads; it puts no message on the
\* channel, the attempt ends without error and is the last request of the pass, with
\* or without text before it.
DoneEndsPass ==
    \A n \in 1..Len(processed) :
        processed[n].type = "done" =>
            /\ n = Len(processed)
            /\ Kinds(AttemptMsgs) = ExpectedKinds(processed, n - 1)
            /\ attemptLog # <<>>
            /\ Last(attemptLog) = [err |-> "nil", cause |-> processed[n]]
            /\ requests = Len(attemptLog)
            /\ pc = "done"
            /\ closed

DoneEndsPassWitness ==
    /\ numTries = 2
    /\ Len(processed) = 2
    /\ processed[1].type = "ping"
    /\ processed[2].type = "done"
    /\ chunks = <<>>
    /\ ch = <<>>
    /\ requests = 1
    /\ reads < MaxReads
    /\ pc = "done"

\* With text before the done record.
DoneAfterTextReached ==
    /\ numTries = 2
    /\ Len(processed) = 2
    /\ processed[1].type = "text"
    /\ processed[2].type = "done"
    /\ Len(ch) = 1
    /\ pc = "done"

\* C15: an attempt whose stream reached the end of the input without a done record
\* and without a failing record ended without error and is the last request of the
\* pass, whatever budget remains; the messages of its records are on the channel.
EndOfInputIsSuccess ==
    \A k \in 1..Len(attemptLog) :
        attemptLog[k].cause = EndOfInput =>
            /\ attemptLog[k].err = "nil"
            /\ k = Len(attemptLog)
            /\ requests = k
            /\ pc = "done"
            /\ closed
            /\ Len(ch) >= attemptStart
            /\ Kinds(AttemptMsgs) = ExpectedKinds(processed, Len(processed))

EndOfInputIsSuccessWitness ==
    /\ numTries = 2
    /\ Len(processed) = 2
    /\ processed[1].type = "text"
    /\ processed[2].type = "suggested_reply"
    /\ attemptLog = <<[err |-> "nil", cause |-> EndOfInput]>>
    /\ requests = 1
    /\ Kinds(ch) = <<"text", "suggested_reply">>
    /\ pc = "done"

\* ------------------------------------------------------------------ claims: failures
\* The last ended attempt failed.
LastAttemptFailed == attemptLog # <<>> /\ Last(attemptLog).err # "nil"

\* The records of the current attempt that did not make it fail.
Harmless ==
    IF pc \in {"sleep", "done"} /\ LastAttemptFailed /\ Last(attemptLog).cause.type # "(transport)"
    THEN Len(processed) - 1
    ELSE Len(processed)

FailureSilentState ==
    /\ Len(ch) >= attemptStart
    /\ Kinds(AttemptMsgs) = ExpectedKinds(processed, Harmless)
    /\ pc = "done" => closed
    /\ closed => pc = "done"

\* C16: a failure of any kind puts nothing on the output channel: the messages of an
\* attempt are those of its records up to the failure and no more; the step that
\* ends a failed attempt leaves the channel as it is; the channel is closed when the
\* pass is over and nothing happens to it afterwards.
FailureSilent ==
    /\ []FailureSilentState
    /\ [][(Len(attemptLog') > Len(attemptLog) /\ Last(attemptLog').err # "nil") =>
              /\ ch' = ch
              /\ pc' \in {"sleep", "done"}]_vars
    /\ [][closed => (ch' = ch /\ closed' /\ requests' = requests)]_vars

FailureSilentWitness ==
    /\ pc = "done"
    /\ closed
    /\ Len(attemptLog) = 2
    /\ attemptLog[1] = [err |-> "BotError", cause |-> TransportFailure]
    /\ attemptLog[2].err = "BotErrorNoRetry"
    /\ attemptLog[2].cause.type = "text"
    /\ attemptStart = 1
    /\ Kinds(ch) = <<"text">>

\* ------------------------------------------------------------------ claims: cancellation
\* C17: once the context is cancelled no message is written to the output channel
\* and no request is answered, so that no record is read any more.
CancellationStopsProduction ==
    [][cancelled =>
          /\ ch' = ch
          /\ reads' = reads
          /\ pc = "start" => pc' # "read"]_vars

\* What the code does keep: with the context cancelled no request is answered.
CancelledNoConnection ==
    [][cancelled /\ pc = "start" => pc' \in {"sleep", "done"} /\ ch' = ch]_vars

\* ------------------------------------------------------------------ claims: backpressure
\* The messages produced and not yet received, the one of a blocked send included.
Undelivered == ch \o (IF pc = "send" THEN <<pending>> ELSE <<>>)

BackpressureState ==
    /\ Len(ch) <= 64
    /\ pc = "send" => pending = Last(produced)
    /\ produced = received \o Undelivered
    /\ Len(produced) = reads
    /\ \A n \in 1..Len(produced) : produced[n].Index = [isNil |-> FALSE, v |-> n - 1]

FirstPassDrained == firstClosed /\ firstPassCh = <<>>

\* The tool calls before position n that have an executable.
Executed(n) == {k \in 1..(n - 1) : toolCalls[k].Name \in executables}

PhaseOrderState ==
    /\ fpc \in {"exec", "callback", "pass2"} => FirstPassDrained
    /\ fpc \in {"exec", "callback"} => pass = 1 /\ pc = "done"
    /\ (pass = 1 /\ pc # "done") => fpc \in {"range", "fsend"}
    /\ fpc = "callback" => Len(toolResults) = Cardinality(Executed(execPos))
    /\ pass = 2 =>
           /\ fpc = "pass2"
           /\ execPos = Len(toolCalls) + 1
           /\ Len(toolResults) = Cardinality(Executed(execPos))
    /\ \A a, b \in 1..Len(origin) : a < b => origin[a] <= origin[b]
    /\ Len(origin) = Len(ch)

\* C19: pass 1, the callbacks and pass 2 follow each other: a callback runs, and a
\* pass-2 request is made, only with the pass-1 channel closed and drained and the
\* pass-1 producer returned; a callback starts only when those before it have
\* returned; pass 2 runs only after the last callback returned; in the output every
\* message forwarded from pass 1 comes before every message of pass 2.
PhaseOrder ==
    /\ []PhaseOrderState
    /\ [][requests' # requests =>
              \/ pass = 1 /\ fpc \in {"range", "fsend"}
              \/ pass = 2 /\ FirstPassDrained /\ execPos > Len(toolCalls)]_vars
    /\ [][(fpc' = "callback" /\ fpc # "callback") =>
              /\ fpc = "exec"
              /\ FirstPassDrained
              /\ requests' = requests
              /\ ch' = ch]_vars
    /\ [][pass = 2 => aggregated' = aggregated /\ toolResults' = toolResults]_vars

PhaseOrderWitness ==
    /\ pass = 2
    /\ executables = {"f", "g"}
    /\ Len(toolCalls) = 2
    /\ Len(toolResults) = 2
    /\ origin = <<1, 2>>
    /\ ch[1].Text = "hi"
    /\ ~ch[2].Data.isNil
    /\ requests = 2

\* A message of pass 1 whose first choice carries a list of tool-call deltas and no
\* finish signal.
IsBundle(msg) ==
    /\ ~msg.Data.isNil
    /\ msg.Data.m["choices"].t = "array"
    /\ ChoicesCatalog[msg.Data.m["choices"].n].len > 0
    /\ LET c == ChoicesCatalog[msg.Data.m["choices"].n].first
       IN  c.isMap /\ ~c.finish /\ c.deltaIsMap /\ c.hasToolCalls /\ c.toolCallsIsList

\* The deltas of a bundle, as the server sent them.
DeltasOf(msg) ==
    LET r == SelectSeq(ChoicesCatalog[msg.Data.m["choices"].n].first.raws,
                       LAMBDA x : x.ok)
    IN  [n \in 1..Len(r) |-> r[n].d]

\* The tool-call deltas the caller is to get, bundle by bundle, for what pass 1
\* produced.
ExpectedBundles ==
    LET b == SelectSeq(produced, IsBundle)
    IN  [n \in 1..Len(b) |-> DeltasOf(b[n])]

\* The tool-call deltas the output carries, message by message.
OutputBundles ==
    LET o == SelectSeq(ch, LAMBDA x : x.ToolCalls # <<>>)
    IN  [n \in 1..Len(o) |-> o[n].ToolCalls]

IsPrefix(p, q) == Len(p) <= Len(q) /\ \A n \in 1..Len(p) : p[n] = q[n]

\* C20: with tool definitions and no executable, every bundle of tool-call deltas
\* the server sends is forwarded as one message whose ToolCalls are the deltas of
\* the bundle, unchanged and in order; nothing is aggregated, no callback runs and
\* there is no second pass.
PassThrough ==
    (hasTools /\ executables = {}) =>
        /\ IsPrefix(OutputBundles, ExpectedBundles)
        /\ fpc = "done" => OutputBundles = ExpectedBundles
        /\ aggregated = EmptyAggregated
        /\ toolCalls = <<>>
        /\ toolResults = <<>>
        /\ fpc \notin {"exec", "callback", "pass2"}
        /\ pass # 2
        /\ requests <= Defaults(numTries)
        /\ \A n \in 1..Len(origin) : origin[n] = 1

PassThroughWitness ==
    /\ hasTools
    /\ executables = {}
    /\ fpc = "done"
    /\ closed
    /\ Len(processed) = 3
    /\ Len(produced) = 3
    /\ IsBundle(produced[1]) /\ IsBundle(produced[2]) /\ ~IsBundle(produced[3])
    /\ Len(ch) = 2
    /\ Len(ch[1].ToolCalls) = 2
    /\ Len(ch[2].ToolCalls) = 1
    /\ ch[2].ToolCalls[1].ID = NilString

\* The pass-1 messages streamRequestWithTools has received so far.
Consumed == SubSeq(produced, 1, Len(produced) - Len(firstPassCh))

\* The deltas of index x the server sent in the bundles of msgs, in arrival order.
RECURSIVE DeltasFor(_, _)
DeltasFor(x, msgs) ==
    IF msgs = <<>> THEN <<>>
    ELSE (IF IsBundle(Head(msgs))
          THEN SelectSeq(DeltasOf(Head(msgs)), LAMBDA d : d.Index = x)
          ELSE <<>>) \o DeltasFor(x, Tail(msgs))

\* The argument fragments of ds, one after the other.
RECURSIVE Fragments(_)
Fragments(ds) == IF ds = <<>> THEN <<>> ELSE Head(ds).Arguments \o Fragments(Tail(ds))

Begins(d) == ~d.ID.isNil /\ ~d.Type.isNil /\ ~d.Name.isNil

\* C21: with executables, for every index whose first delta has id, type and name,
\* the aggregated call has that id, type and name, and its arguments are the
\* fragments of all the deltas of that index received in pass 1, in arrival order.
DeltaAggregation ==
    (executables # {} /\ pass = 1) =>
        \A x \in ToolIndexes :
            LET ds == DeltasFor(x, Consumed)
            IN  (ds # <<>> /\ Begins(ds[1])) =>
                    aggregated[x] = ToolCall(ds[1].ID.v, ds[1].Type.v, ds[1].Name.v,
                                             Fragments(ds))

DeltaAggregationWitness ==
    /\ executables # {}
    /\ pass = 1
    /\ fpc = "exec"
    /\ Len(DeltasFor(1, Consumed)) = 3
    /\ Begins(DeltasFor(1, Consumed)[1])
    /\ aggregated[1].Arguments = <<"z", "y">>
    /\ aggregated[0] = ToolCall("c0", "function", "f", <<"x">>)

\* The tool calls handed to executeTools are the entries of aggregatedToolCalls.
CallsAreEntries ==
    fpc \in {"exec", "callback"} =>
        /\ {toolCalls[n] : n \in 1..Len(toolCalls)} =
               {aggregated[x] : x \in {y \in ToolIndexes : aggregated[y].exists}}
        /\ Len(toolCalls) = Cardinality({y \in ToolIndexes : aggregated[y].exists})
        /\ \A n \in 1..Len(toolResults) :
               \E k \in 1..Len(toolCalls) : toolResults[n].ToolCallID = toolCalls[k].ID

Beginnings(ds) == {k \in 1..Len(ds) : Begins(ds[k])}

IndexNeverBegunReached ==
    /\ executables = {"f", "g"}
    /\ fpc = "done"
    /\ closed
    /\ Len(DeltasFor(1, Consumed)) = 3
    /\ Beginnings(DeltasFor(1, Consumed)) = {}
    /\ aggregated[1] = NoCall
    /\ toolResults = <<>>

\* A message of pass 1 whose first choice carries a finish signal.
IsFinish(msg) ==
    /\ ~msg.Data.isNil
    /\ msg.Data.m["choices"].t = "array"
    /\ ChoicesCatalog[msg.Data.m["choices"].n].len > 0
    /\ ChoicesCatalog[msg.Data.m["choices"].n].first.isMap
    /\ ChoicesCatalog[msg.Data.m["choices"].n].first.finish

FinishConsumed == \E n \in 1..Len(Consumed) : IsFinish(Consumed[n])

\* C23: in pass 1 a record with a finish signal is not forwarded, and once it was
\* received nothing more is aggregated or forwarded in pass 1.
FinishEndsPassOne ==
    /\ [](\A n \in 1..Len(ch) : origin[n] = 1 => ~IsFinish(ch[n]))
    /\ [][(hasTools /\ pass = 1 /\ FinishConsumed) =>
              ch' = ch /\ aggregated' = aggregated]_vars

\* The half of C23 the code keeps: the record with the finish signal is not
\* forwarded.
FinishNotForwarded == \A n \in 1..Len(ch) : origin[n] = 1 => ~IsFinish(ch[n])

\* A content fragment forwarded in pass 1 after the finish signal, in one attempt.
ForwardedAfterFinish ==
    /\ pass = 1
    /\ requests = 1
    /\ firstPassCh = <<>>
    /\ Len(produced) = 2
    /\ IsFinish(produced[1])
    /\ Len(ch) = 1
    /\ ch[1].Text = "hi"

\* The tool calls executeTools has gone through that have a callback, in its order.
CallsWithCallback ==
    SelectSeq(SubSeq(toolCalls, 1, execPos - 1), LAMBDA tc : tc.Name \in executables)

ToolResultsState ==
    fpc \in {"exec", "callback", "pass2"} =>
        /\ Len(toolResults) = Len(CallsWithCallback)
        /\ \A n \in 1..Len(toolResults) :
               /\ toolResults[n].Role = "tool"
               /\ toolResults[n].ToolCallID = CallsWithCallback[n].ID
               /\ toolResults[n].Name = CallsWithCallback[n].Name
               /\ \E o \in CallbackOutcomes : toolResults[n].Content = o.content
        /\ fpc = "pass2" => execPos = Len(toolCalls) + 1

\* C24: every aggregated tool call with a registered callback gets exactly one
\* result, with role "tool", the name and id of the call and the content the
\* callback returned or the message of its error; a call without a callback gets
\* none; a failing callback stops neither the remaining calls nor the request.
ToolResults ==
    /\ []ToolResultsState
    /\ [][(fpc = "callback" /\ fpc' # "callback") =>
              /\ \E o \in CallbackOutcomes :
                     toolResults' = Append(toolResults,
                                           [Role |-> "tool",
                                            ToolCallID |-> toolCalls[execPos].ID,
                                            Name |-> toolCalls[execPos].Name,
                                            Content |-> o.content])
              /\ fpc' = "exec"
              /\ execPos' = execPos + 1
              /\ closed' = closed]_vars
    /\ [][(fpc = "exec" /\ fpc' # "exec") =>
              \/ fpc' = "callback" /\ toolCalls[execPos].Name \in executables
              \/ fpc' = "pass2" /\ execPos = Len(toolCalls) + 1]_vars
    /\ [][(fpc = "exec" /\ execPos' # execPos) =>
              toolCalls[execPos].Name \notin executables /\ toolResults' = toolResults]_vars

ToolResultsWitness ==
    /\ pass = 2
    /\ requests = 2
    /\ executables = {"f"}
    /\ Len(toolCalls) = 2
    /\ toolResults = <<[Role |-> "tool", ToolCallID |-> "c0", Name |-> "f",
                        Content |-> "e"]>>

\* A callback failed and the next one ran all the same.
SecondCallbackAfterFailure ==
    /\ executables = {"f", "g"}
    /\ Len(toolResults) = 2
    /\ toolResults[1].Content = "e"
    /\ toolResults[2].Content = "r"

SomeAggregated == \E x \in ToolIndexes : aggregated[x].exists

PassTwoIffCallsState ==
    executables # {} =>
        /\ pass = 2 => SomeAggregated
        /\ fpc \in {"exec", "callback"} => SomeAggregated
        /\ fpc = "done" =>
               /\ ~SomeAggregated
               /\ closed
               /\ pass = 1
               /\ toolCalls = <<>> /\ toolResults = <<>>
               /\ \A n \in 1..Len(origin) : origin[n] = 1
        /\ closed =>
               \/ fpc = "done"
               \/ SomeAggregated /\ pass = 2 /\ pc = "done" /\ requests >= 2

\* C25: with executables, a pass-2 request is made exactly when pass 1 aggregated
\* a tool call; with none, no callback runs, there is no pass 2 and the output is
\* closed after pass 1.
PassTwoIffCalls ==
    /\ []PassTwoIffCallsState
    /\ [][(executables # {} /\ fpc = "range" /\ fpc' \notin {"range", "fsend"}) =>
              /\ firstClosed /\ firstPassCh = <<>>
              /\ IF SomeAggregated
                 THEN fpc' = "exec" /\ ~closed' /\ pass' = 1
                 ELSE fpc' = "done" /\ closed' /\ requests' = requests]_vars
    /\ [][(pass = 2 /\ pc = "start" /\ pc' # "start") => requests' = requests + 1]_vars
    /\ [][pass' = 2 => pass = 2 \/ (pc' = "start" /\ ~closed')]_vars

PassTwoIffCallsWitness ==
    /\ executables # {}
    /\ fpc = "done"
    /\ closed
    /\ ~SomeAggregated
    /\ Len(produced) = 2
    /\ IsBundle(produced[1])
    /\ Len(ch) = 1
    /\ ch[1].Text = "hi"
    /\ requests = 1

\* A pass-2 request made after one tool call was aggregated and its callback skipped.
PassTwoRequested ==
    /\ executables = {"f"}
    /\ pass = 2
    /\ pc = "read"
    /\ requests = 2
    /\ SomeAggregated

\* The list a key of the payload carries: none when the key is absent.
ListOf(key) == IF key.present THEN key.v ELSE <<>>

\* The messages on the output that pass 2 wrote.
PassTwoOutput ==
    LET idx == {n \in 1..Len(ch) : origin[n] = 2}
        first == Len(ch) - Cardinality(idx)
    IN  [n \in 1..Cardinality(idx) |-> ch[first + n]]

\* The last n elements of s.
LastN(s, n) == SubSeq(s, Len(s) - n + 1, Len(s))

PassTwoPayloadState ==
    pass = 2 =>
        /\ payload.request = Request
        /\ payload.tools = Key(Tools)
        /\ payload.tool_calls.present
        /\ Len(payload.tool_calls.v) = Cardinality({x \in ToolIndexes : aggregated[x].exists})
        /\ {payload.tool_calls.v[n] : n \in 1..Len(payload.tool_calls.v)} =
               {aggregated[x] : x \in {y \in ToolIndexes : aggregated[y].exists}}
        /\ ListOf(payload.tool_results) = toolResults
        /\ payload.tool_results.present = (toolResults # <<>>)
        /\ Len(PassTwoOutput) <= Len(produced)
        /\ PassTwoOutput = LastN(produced, Len(PassTwoOutput))

\* C26: every request of pass 2 carries the original request, all the aggregated
\* tool calls and the tool results; what pass 2 produces goes to the output as it
\* is, with no aggregation, no callback and nothing held back.
PassTwoPayload ==
    /\ []PassTwoPayloadState
    /\ [][(pass = 2 /\ requests' # requests) =>
              /\ payload' = payload
              /\ payload = BuildPayload(Request, Slice(Tools), Slice(toolCalls),
                                        IF toolResults = <<>> THEN NilSlice
                                        ELSE Slice(toolResults))]_vars
    /\ [][(pass = 2 /\ produced' # produced) =>
              /\ ch' = Append(ch, produced'[Len(produced')])
              /\ origin' = Append(origin, 2)]_vars
    /\ [][pass = 2 =>
              /\ aggregated' = aggregated
              /\ toolCalls' = toolCalls
              /\ toolResults' = toolResults
              /\ fpc' = "pass2"
              /\ firstPassCh' = firstPassCh]_vars

PassTwoPayloadWitness ==
    /\ pass = 2
    /\ executables = {"f", "g"}
    /\ requests = 3
    /\ sleeps = 1
    /\ Len(payload.tool_calls.v) = 2
    /\ Len(ListOf(payload.tool_results)) = 2
    /\ Len(ch) = 1
    /\ origin = <<2>>
    /\ IsBundle(ch[1])
    /\ ch[1].ToolCalls = <<>>

\* A second pass requested with tool calls and no result: the payload has no
\* tool_results key.
PassTwoWithoutResults ==
    /\ pass = 2
    /\ requests = 2
    /\ executables = {"h"}
    /\ Len(payload.tool_calls.v) = 2
    /\ ~payload.tool_results.present

\* ------------------------------------------------------------------ claims: GetFinalResponse
\* GetFinalResponse has received everything: the channel is closed and empty.
FinalReturned == closed /\ ch = <<>>

\* The texts of msgs from the last replace_response on, meta and suggested replies
\* left out, as the sequence of the non-empty ones.
ExpectedTranscript(msgs) ==
    LET reps == {n \in 1..Len(msgs) : msgs[n].IsReplaceResponse}
        from == IF reps = {} THEN 1 ELSE CHOOSE n \in reps : \A k \in reps : k <= n
        kept == SelectSeq(SubSeq(msgs, from, Len(msgs)),
                          LAMBDA m : m.RawResponse.isNil /\ ~m.IsSuggestedReply
                                     /\ m.Text # "")
    IN  [n \in 1..Len(kept) |-> kept[n].Text]

\* C27: GetFinalResponse returns the texts of the messages from the last Replace
\* message on (from the start without one), in arrival order, Meta and
\* SuggestedReply messages left out: [Text "Old", Replace "New"] gives "New".
FinalTranscript ==
    FinalReturned => GetFinalResponse(received).text = ExpectedTranscript(received)

FinalTranscriptWitness ==
    /\ FinalReturned
    /\ Len(received) = 3
    /\ received[1].Text = "Old" /\ ~received[1].IsReplaceResponse
    /\ received[2].Text = "New" /\ received[2].IsReplaceResponse
    /\ received[3].IsSuggestedReply
    /\ GetFinalResponse(received) = [text |-> <<"New">>, err |-> "nil"]

\* Texts on both sides of a replace_response, after a meta record.
FinalAfterReplaceReached ==
    /\ FinalReturned
    /\ Len(received) = 3
    /\ ~received[1].RawResponse.isNil
    /\ received[2].IsReplaceResponse
    /\ GetFinalResponse(received).text = <<"New", "Old">>

\* ------------------------------------------------------------------ claims: codec errors
\* The values of the lines of kind k the last ReadEvent call went through.
TraceValues(k) ==
    LET ls == SelectSeq(lastTrace, LAMBDA t : LineOf(t.line).kind = k)
    IN  [n \in 1..Len(ls) |-> LineOf(ls[n].line).val]

\* The lines the last ReadEvent call went through leave a record with content.
TracePending ==
    \/ TraceValues("data") # <<>>
    \/ TraceValues("event") # <<>> /\ Last(TraceValues("event")) # <<>>
    \/ TraceValues("id") # <<>> /\ Last(TraceValues("id")) # <<>>

\* C28: when the input fails with an I/O error ReadEvent returns that error, not
\* io.EOF, and not the record it has accumulated; io.EOF is returned only when the
\* input ended without error with nothing pending, and again on every later call.
ReadErrors ==
    /\ [](phase = "read" =>
              /\ rerr = "err" => srcErr /\ rpos = Len(rlines)
              /\ rerr = "EOF" => ~srcErr /\ rpos = Len(rlines) /\ ~TracePending)
    /\ [][rerr' = "err" => out' = out]_vars
    /\ [][(srcErr /\ out' # out) =>
              rpos' > 0 /\ rlines[rpos'] = <<>> /\ rerr' = "nil"]_vars
    /\ [][(rerr = "EOF" /\ run' = run) => rerr' = "EOF" /\ out' = out]_vars

ReadErrorsWitness ==
    /\ phase = "read"
    /\ srcErr
    /\ rerr = "err"
    /\ Len(out) = 1
    /\ Len(lastTrace) = 1
    /\ TraceValues("data") = << <<"a">> >>

\* io.EOF returned by a call made after io.EOF was returned.
EndOfStreamAgain ==
    /\ phase = "read"
    /\ rerr = "EOF"
    /\ run = 1
    /\ lastTrace = <<>>
    /\ Len(rlines) = 2
    /\ out = <<>>

\* ------------------------------------------------------------------ C29
\* The field lines WriteEvent has to write for e, one sink write each.
FieldLines(e) ==
    (IF e.ID = <<>> THEN <<>> ELSE << <<"i", "d", ":", " ">> \o e.ID \o <<"\n">> >>)
    \o (IF e.Event = <<>> THEN <<>>
        ELSE << <<"e", "v", "e", "n", "t", ":", " ">> \o e.Event \o <<"\n">> >>)
    \o << <<"d", "a", "t", "a", ":", " ">> \o e.Data \o <<"\n", "\n">> >>

SinkWrites == SelectSeq(lastOps, LAMBDA o : o.op = "write")
SinkFlushes == SelectSeq(lastOps, LAMBDA o : o.op = "flush")

\* C29: in WriteEvent each field line is one sink write and the first failing
\* write aborts the record: the error is returned, no later field line of the
\* record is written and the sink is not flushed; when all writes succeed and
\* the sink supports flushing, it is flushed exactly once, after the data line.
WriteAborts ==
    written # <<>> =>
        LET lines == FieldLines(Last(written))
            ws == SinkWrites
        IN  /\ Len(ws) <= Len(lines)
            /\ \A n \in 1..Len(ws) : ws[n].bytes = lines[n]
            /\ \A n \in 1..Len(ws) : ~ws[n].ok => n = Len(ws)
            /\ werr = "err" <=> \E n \in 1..Len(ws) : ~ws[n].ok
            /\ werr = "err" => lastOps = ws
            /\ werr = "nil" =>
                  /\ Len(ws) = Len(lines)
                  /\ Len(SinkFlushes) = (IF hasFlusher THEN 1 ELSE 0)
                  /\ lastOps = ws \o SinkFlushes

\* The event line of a record with an id fails on a flushing sink: the id line
\* was written, the data line was not, and nothing was flushed.
WriteAbortsWitness ==
    /\ hasFlusher
    /\ werr = "err"
    /\ written # <<>>
    /\ Last(written) = Event(<<"1">>, <<"t">>, <<"a">>)
    /\ Len(lastOps) = 2
    /\ lastOps[1].ok
    /\ ~lastOps[2].ok

\* All three lines of a record are written to a flushing sink, then one flush.
FlushedOnceReached ==
    /\ hasFlusher
    /\ werr = "nil"
    /\ Len(lastOps) = 4
    /\ lastOps[4].op = "flush"

\* ------------------------------------------------------------------ C30
\* The loop of performQueryRequest run over the records recs of one attempt, from
\* the state st: the messages sent and the state the loop is left in.
RECURSIVE AttemptRun(_, _)
AttemptRun(recs, st) ==
    IF recs = <<>> \/ st.returned THEN st
    ELSE LET d == Dispatch(Head(recs), st.eventCount + 1, st.chunks, st.errorReported)
         IN  AttemptRun(Tail(recs),
                        [eventCount |-> st.eventCount + 1,
                         chunks |-> d.chunks,
                         errorReported |-> d.errorReported,
                         msgs |-> IF d.do = "send" THEN Append(st.msgs, d.msg)
                                  ELSE st.msgs,
                         returned |-> d.do = "return",
                         err |-> d.err])

\* The state of performQueryRequest before the first record.
AttemptStart ==
    [eventCount |-> 0, chunks |-> <<>>, errorReported |-> FALSE, msgs |-> <<>>,
     returned |-> FALSE, err |-> "nil"]

WithoutPings(recs) == SelectSeq(recs, LAMBDA r : r.type # "ping")

\* The messages of the current attempt are those the loop sends for its records.
AttemptRunIsAttempt ==
    /\ Len(ch) >= attemptStart
    /\ AttemptMsgs = AttemptRun(processed, AttemptStart).msgs

\* C30: a ping record emits no message and changes no orchestrator state: the
\* messages of an attempt, and whether and how the loop has returned, are those
\* of the same records with the ping records removed.
PingTransparent ==
    LET with == AttemptRun(processed, AttemptStart)
        without == AttemptRun(WithoutPings(processed), AttemptStart)
    IN  /\ Len(ch) >= attemptStart
        /\ AttemptMsgs = without.msgs
        /\ with.returned = without.returned
        /\ with.err = without.err

\* A ping record, then a well-formed meta record: the attempt has sent nothing and
\* goes on reading, while the meta record alone is answered with a Meta message.
PingHidesMeta ==
    /\ pc = "read"
    /\ Len(processed) = 2
    /\ processed[1].type = "ping"
    /\ processed[2].type = "meta"
    /\ processed[2].data.kind = "object"
    /\ Len(ch) = attemptStart
    /\ Kinds(AttemptRun(<<processed[2]>>, AttemptStart).msgs) = <<"meta">>

\* A ping record leaves the text, the error flag and the output as they are, but
\* it is counted as a record of the attempt.
ReadsPing == Len(processed') = Len(processed) + 1 /\ Last(processed').type = "ping"

PingCounted ==
    [][ReadsPing =>
          /\ pc' = "read"
          /\ ch' = ch
          /\ chunks' = chunks
          /\ errorReported' = errorReported
          /\ attemptLog' = attemptLog
          /\ closed' = closed
          /\ eventCount' = eventCount + 1]_vars

\* ------------------------------------------------------------------ C31
\* The n-th record of an attempt is a soft failure: its type is not one the
\* switch knows, or it is a first-position meta record whose payload is not JSON
\* for a map.
KnownTypes ==
    {"done", "text", "replace_response", "file", "suggested_reply", "json", "meta",
     "error", "ping"}

SoftFailure(rec, n) ==
    \/ rec.type \notin KnownTypes
    \/ rec.type = "meta" /\ n = 1 /\ rec.data.kind \notin {"object", "null"}

\* The records with every soft failure replaced by a record that is only counted.
AsSkipped(recs) ==
    [n \in 1..Len(recs) |->
        IF SoftFailure(recs[n], n) THEN Rec("ping", recs[n].data) ELSE recs[n]]

ReadsSoftFailure ==
    /\ Len(processed') = Len(processed) + 1
    /\ SoftFailure(Last(processed'), Len(processed'))

SoftFailuresSkippedState ==
    LET skipped == AttemptRun(AsSkipped(processed), AttemptStart)
        asRead == AttemptRun(processed, AttemptStart)
    IN  /\ Len(ch) >= attemptStart
        /\ AttemptMsgs = skipped.msgs
        /\ asRead.returned = skipped.returned
        /\ asRead.err = skipped.err
        /\ (pc = "read" /\ processed # <<>>) => chunks = skipped.chunks

\* C31: a record of an unrecognized type and a first-position meta record with
\* malformed JSON emit no message, do not end or fail the attempt and start no
\* retry: the loop goes on reading with the output, the accumulated text, the
\* attempt log and the request count as they were, and the records after them
\* are dispatched as after a record that is skipped.
SoftFailuresSkipped ==
    /\ []SoftFailuresSkippedState
    /\ [][ReadsSoftFailure =>
             /\ pc' = "read"
             /\ ch' = ch
             /\ chunks' = chunks
             /\ attemptLog' = attemptLog
             /\ closed' = closed
             /\ i' = i
             /\ requests' = requests
             /\ sleeps' = sleeps]_vars

\* A malformed meta record, a record of unknown type, then a text record: one
\* attempt, still reading, whose only message is the text.
SoftFailuresSkippedWitness ==
    /\ pc = "read"
    /\ i = 0
    /\ attemptLog = <<>>
    /\ Len(processed) = 3
    /\ processed[1].type = "meta"
    /\ processed[1].data.kind = "invalid"
    /\ processed[2].type = "other"
    /\ processed[3].type = "text"
    /\ Kinds(AttemptMsgs) = <<"text">>
    /\ AttemptMsgs[1].Text = "a"

\* ------------------------------------------------------------------ C32
\* The indexes of the deltas of the message at the head of the pass-1 channel.
HeadIndexes ==
    IF firstPassCh = <<>> \/ ~IsBundle(Head(firstPassCh)) THEN {}
    ELSE {DeltasOf(Head(firstPassCh))[n].Index : n \in 1..Len(DeltasOf(Head(firstPassCh)))}

\* C32: during pass 1 the aggregated tool calls are keyed by delta index and an
\* entry is never removed or re-keyed: an entry changes only when a delta of its
\* index is received; once it exists it stays, its id, type and function name
\* never change, and its arguments only grow by appending, every earlier value
\* being a prefix of every later one.
AggregatedGrowsOnly ==
    [][\A x \in ToolIndexes :
          /\ aggregated'[x] # aggregated[x] => pass = 1 /\ x \in HeadIndexes
          /\ aggregated[x].exists =>
                /\ aggregated'[x].exists
                /\ aggregated'[x].ID = aggregated[x].ID
                /\ aggregated'[x].Type = aggregated[x].Type
                /\ aggregated'[x].Name = aggregated[x].Name
                /\ IsPrefix(aggregated[x].Arguments, aggregated'[x].Arguments)]_vars

\* The first deltas of calls 0 and 1, their fragments, then the first deltas
\* again: the entries are the ones created first, with the fragments kept.
AggregatedGrowsOnlyWitness ==
    /\ pass = 1
    /\ executables # {}
    /\ firstPassCh = <<>>
    /\ Len(Consumed) = 3
    /\ Len(DeltasFor(0, Consumed)) = 3
    /\ Begins(DeltasFor(0, Consumed)[1])
    /\ Begins(DeltasFor(0, Consumed)[3])
    /\ aggregated[0] = ToolCall("c0", "function", "f", <<"x">>)
    /\ aggregated[1] = ToolCall("c1", "function", "g", <<"y">>)

\* ------------------------------------------------------------------ C33
\* C33: across all attempts of a run, a Meta message is in the output of
\* StreamRequest only as its very first message.
MetaFirstInOutput ==
    \A n \in 2..Len(ch) : Kind(ch[n]) # "meta"

\* A text record and a retryable error in the first attempt, a meta record at
\* the head of the second: the output is the Text message, then the Meta message.
MetaAfterRetryReached ==
    /\ i = 1
    /\ Len(attemptLog) = 1
    /\ attemptLog[1].err = "BotError"
    /\ Len(processed) = 1
    /\ processed[1].type = "meta"
    /\ Kinds(ch) = <<"text", "meta">>

\* ------------------------------------------------------------------ C34
\* The output of StreamRequest so far: what the consumer received and what waits
\* in the channel.
Output == received \o ch

\* The messages of the attempts before the current one, and of the current one.
EarlierAttempts == SubSeq(Output, 1, attemptStart)
CurrentAttempt == SubSeq(Output, attemptStart + 1, Len(Output))

HasReplace(msgs) == \E n \in 1..Len(msgs) : msgs[n].IsReplaceResponse

\* C34 as stated: the transcript of GetFinalResponse is the text of the failed
\* attempts followed by the text of the last attempt.
RetryKeepsAllText ==
    FinalReturned =>
        GetFinalResponse(received).text =
            ExpectedTranscript(EarlierAttempts) \o ExpectedTranscript(CurrentAttempt)

\* C34, amended: the output is never retracted and is the messages of the earlier
\* attempts followed by those of the current one; the transcript is the text of
\* the failed attempts followed by that of the last attempt unless the last
\* attempt has a Replace message, and then it is the text of the last attempt.
RetryKeepsOutput ==
    /\ [][IsPrefix(Output, Output')]_vars
    /\ [](/\ Len(Output) >= attemptStart
          /\ CurrentAttempt = AttemptRun(processed, AttemptStart).msgs)
    /\ [][attemptStart' # attemptStart =>
             /\ attemptStart' = Len(Output)
             /\ Output' = Output]_vars
    /\ [](FinalReturned =>
             GetFinalResponse(received).text =
                 (IF HasReplace(CurrentAttempt) THEN <<>>
                  ELSE ExpectedTranscript(EarlierAttempts))
                 \o ExpectedTranscript(CurrentAttempt))

\* Text "Old" and a retryable error in the first attempt, text "Old" and the end
\* of the stream in the second: the transcript has both texts.
RetryKeepsOutputWitness ==
    /\ FinalReturned
    /\ i = 1
    /\ Len(attemptLog) = 2
    /\ attemptLog[1].err = "BotError"
    /\ attemptLog[2].err = "nil"
    /\ attemptStart = 1
    /\ Len(received) = 2
    /\ GetFinalResponse(received) = [text |-> <<"Old", "Old">>, err |-> "nil"]

\* The second attempt answers with a Replace message: the text of the failed
\* attempt is not in the transcript.
RetryTextReplacedReached ==
    /\ FinalReturned
    /\ i = 1
    /\ attemptStart = 1
    /\ received[1].Text = "Old"
    /\ HasReplace(CurrentAttempt)
    /\ GetFinalResponse(received) = [text |-> <<"New">>, err |-> "nil"]

\* ------------------------------------------------------------------ C35
\* The pass-1 messages of the attempts before the last one, and of the last one.
PassOneAttempts ==
    <<SubSeq(produced, 1, attemptStart), SubSeq(produced, attemptStart + 1, Len(produced))>>

\* The arguments the deltas of index x give within the messages msgs of one
\* attempt: the fragments from the first delta with id, type and name on.
SingleAttemptArgs(x, msgs) ==
    LET ds == DeltasFor(x, msgs)
        b == {n \in 1..Len(ds) : Begins(ds[n])}
    IN  IF b = {} THEN [begun |-> FALSE, args |-> <<>>]
        ELSE [begun |-> TRUE,
              args |-> Fragments(SubSeq(ds, CHOOSE n \in b : \A k \in b : n <= k,
                                        Len(ds)))]

\* C35: when pass 1 is retried, the fragments aggregated during the failed
\* attempt are not mixed with those of the retry: the arguments passed to a
\* callback are the fragments received for its index within a single attempt.
FragmentsOfOneAttempt ==
    (pass = 1 /\ fpc = "callback") =>
        \E x \in ToolIndexes :
            /\ aggregated[x] = toolCalls[execPos]
            /\ \E a \in 1..2 :
                  LET s == SingleAttemptArgs(x, PassOneAttempts[a])
                  IN  s.begun /\ s.args = toolCalls[execPos].Arguments

\* The first attempt begins call 0 and fails retryably, the second attempt brings
\* the fragment "x" for index 0 only: the callback f is called with "x".
FragmentsMixedReached ==
    /\ pass = 1
    /\ fpc = "callback"
    /\ i = 1
    /\ attemptStart = 1
    /\ Len(produced) = 2
    /\ SingleAttemptArgs(0, PassOneAttempts[1]) = [begun |-> TRUE, args |-> <<>>]
    /\ SingleAttemptArgs(0, PassOneAttempts[2]) = [begun |-> FALSE, args |-> <<>>]
    /\ toolCalls[execPos] = ToolCall("c0", "function", "f", <<"x">>)

\* ------------------------------------------------------------------ C36
\* C36: a callback is invoked and pass 2 is started only when pass 1 ended
\* successfully, whatever was aggregated.
ToolsOnlyAfterSuccess ==
    [][(\/ fpc # "callback" /\ fpc' = "callback"
        \/ pass = 1 /\ pass' = 2)
       => /\ attemptLog # <<>>
          /\ Last(attemptLog).err = "nil"]_vars

\* One attempt allowed: it begins the calls and fails; the callback f runs.
CallbackAfterFailedPassReached ==
    /\ fpc = "callback"
    /\ pass = 1
    /\ numTries = 1
    /\ requests = 1
    /\ Len(attemptLog) = 1
    /\ attemptLog[1].err = "BotError"
    /\ toolCalls[execPos].Name = "f"

\* Pass 2 is requested after a pass 1 whose only attempt failed.
PassTwoAfterFailedPassReached ==
    /\ pass = 2
    /\ requests = 2
    /\ numTries = 1
    /\ attemptLog[1].err = "BotError"

\* ------------------------------------------------------------------ C37
\* The aggregated tool calls in ascending order of their index.
RECURSIVE Ascending(_)
Ascending(S) ==
    IF S = {} THEN <<>>
    ELSE LET x == CHOOSE y \in S : \A z \in S : y <= z
         IN  <<aggregated[x]>> \o Ascending(S \ {x})

\* The calls of results rs, in order.
ResultIds(rs) == [n \in 1..Len(rs) |-> rs[n].ToolCallID]

\* C37: the callbacks are invoked, and the tool_calls and tool_results of pass 2
\* are listed, in ascending order of delta index, tool_results in the relative
\* order of tool_calls.
ToolOrderAscending ==
    (fpc \in {"exec", "callback"} \/ pass = 2) =>
        /\ toolCalls = Ascending({x \in ToolIndexes : aggregated[x].exists})
        /\ pass = 2 =>
              /\ ListOf(payload.tool_calls) = toolCalls
              /\ ResultIds(ListOf(payload.tool_results)) =
                     ResultIds(SelectSeq([n \in 1..Len(toolCalls) |->
                                             [ToolCallID |-> toolCalls[n].ID,
                                              Name |-> toolCalls[n].Name]],
                                         LAMBDA c : c.Name \in executables))

\* Calls 0 (f) and 1 (g) were aggregated: g is called first, and pass 2 is
\* requested with tool_calls c1, c0 and tool_results in that order.
ToolOrderDescendingReached ==
    /\ pass = 2
    /\ requests = 2
    /\ executables = {"f", "g"}
    /\ aggregated[0].exists /\ aggregated[1].exists
    /\ ResultIds(ListOf(payload.tool_results)) = <<"c1", "c0">>
    /\ [n \in 1..2 |-> payload.tool_calls.v[n].ID] = <<"c1", "c0">>

\* ------------------------------------------------------------------ C38
\* A channel changes only by the receiver taking its head.
OnlyReceived(q, r) == r = q \/ (q # <<>> /\ r = Tail(q))

ChannelsSettled ==
    closed =>
        /\ pc = "done"
        /\ fpc \in {"idle", "done", "pass2"}
        /\ pending = ZeroMsg
        /\ fpending = ZeroMsg
        /\ firstPassCh = <<>>
        /\ hasTools => firstClosed

\* C38: in every run, with or without tools, the output channel is closed once,
\* after the last message was written to it: once it is closed it stays closed,
\* no goroutine of the request makes a step and the channel changes only by
\* the consumer receiving; and once the pass-1 queue is closed it stays closed
\* and changes only by streamRequestWithTools receiving from it.
ChannelDiscipline ==
    /\ []ChannelsSettled
    /\ [][closed =>
             /\ closed'
             /\ OnlyReceived(ch, ch')
             /\ pc' = pc
             /\ fpc' = fpc
             /\ firstPassCh' = firstPassCh
             /\ firstClosed' = firstClosed]_vars
    /\ [][firstClosed =>
             /\ firstClosed'
             /\ OnlyReceived(firstPassCh, firstPassCh')
             /\ pass' = 1 => pc' = pc /\ produced' = produced]_vars

\* A run with tools and an executable: the pass-1 queue was closed and drained,
\* the callback ran, pass 2 wrote the burst and the output was closed after it.
ChannelDisciplineWitness ==
    /\ closed
    /\ firstClosed
    /\ pass = 2
    /\ toolResults # <<>>
    /\ Len(ch) = 64
    /\ Len(received) = 1

\* A run without tools whose output was closed after a burst.
ClosedWithoutToolsReached ==
    /\ closed
    /\ ~hasTools
    /\ Len(ch) = 64
    /\ Len(received) = 2

\* ------------------------------------------------------------------ C39
\* The attempts of the current pass stay within the budget.
AttemptsWithinBudget ==
    pc # "new" =>
        /\ i < numTries
        /\ requests <= (IF pass = 2 THEN 2 ELSE 1) * numTries

\* C39: with a consumer that keeps receiving, streams that end and callbacks
\* that return, every run of StreamRequest, with or without tools, eventually
\* closes its output channel, after at most N attempts per pass.
TerminatesWithConsumer ==
    /\ <>closed
    /\ []AttemptsWithinBudget

\* A run with tools and no executable: the burst went through the pass-1 queue
\* and the full output channel, the consumer made room twice, and the output
\* was closed on the first attempt.
TerminatesWithConsumerWitness ==
    /\ closed
    /\ hasTools
    /\ executables = {}
    /\ requests = 1
    /\ Len(produced) = 66
    /\ Len(ch) = 64
    /\ Len(received) = 2

\* Two attempts in each pass, then the output is closed.
TwoAttemptsPerPassReached ==
    /\ closed
    /\ pass = 2
    /\ requests = 4

\* ------------------------------------------------------------------ C40
\* C40: once the context is cancelled the goroutine of StreamRequest eventually
\* terminates and the output channel is eventually closed, even when the
\* consumer has stopped receiving and the channel is full.
CancelTerminates == cancelled ~> (closed /\ pc = "done")

\* What the code does keep: after a cancellation the output is closed unless a
\* send is blocked on the full channel.
CancelTerminatesUnlessBlocked ==
    cancelled ~> (closed \/ (pc = "send" /\ Len(ch) = 64))

\* The context is cancelled and the goroutine is blocked in `ch <- msg` on the
\* full channel, which is not closed.
BlockedAfterCancelReached ==
    /\ cancelled
    /\ ~closed
    /\ pc = "send"
    /\ Len(ch) = 64
    /\ pending # ZeroMsg

====
